---------------------------- MODULE Spec2Model ----------------------------
(***************************************************************************)
(* A model of the mogilefs client library (package mogilefs):              *)
(*   - the tracker connection handling and the request/reply codec of      *)
(*     net-io.go (getTrackerConnection, returnTrackerConnection,           *)
(*     DoRequest, reMogileOk, reMogileFail),                               *)
(*   - the public operations of client.go (GetPaths, Rename, Delete,       *)
(*     Debug, Fetch, Create),                                              *)
(*   - the tracker blacklist (trackerIsBad, markTrackerAsBad,              *)
(*     markTrackerAsAlive).                                                *)
(*                                                                         *)
(* Strings are sequences of one-character strings, so that the regular     *)
(* expressions, url.ParseQuery and fmt.Sprintf("%d") are computed on the   *)
(* characters as the Go code computes them.                                *)
(***************************************************************************)
EXTENDS Integers, Sequences, FiniteSets, TLC

(***************************************************************************)
(* Characters and strings                                                  *)
(***************************************************************************)

\* Byte values of the characters the model uses (ASCII).
Ord ==
    "a" :> 97 @@ "b" :> 98 @@ "c" :> 99 @@ "d" :> 100 @@ "e" :> 101 @@
    "f" :> 102 @@ "g" :> 103 @@ "h" :> 104 @@ "i" :> 105 @@ "j" :> 106 @@
    "k" :> 107 @@ "l" :> 108 @@ "m" :> 109 @@ "n" :> 110 @@ "o" :> 111 @@
    "p" :> 112 @@ "q" :> 113 @@ "r" :> 114 @@ "s" :> 115 @@ "t" :> 116 @@
    "u" :> 117 @@ "v" :> 118 @@ "w" :> 119 @@ "x" :> 120 @@ "y" :> 121 @@
    "z" :> 122 @@ "O" :> 79 @@ "K" :> 75 @@ "E" :> 69 @@ "R" :> 82 @@
    "A" :> 65 @@ "B" :> 66 @@ "C" :> 67 @@ "D" :> 68 @@ "F" :> 70 @@
    "0" :> 48 @@ "1" :> 49 @@ "2" :> 50 @@ "3" :> 51 @@ "4" :> 52 @@
    "5" :> 53 @@ "6" :> 54 @@ "7" :> 55 @@ "8" :> 56 @@ "9" :> 57 @@
    "_" :> 95 @@ "=" :> 61 @@ "&" :> 38 @@ "%" :> 37 @@ "+" :> 43 @@
    ":" :> 58 @@ "/" :> 47 @@ "." :> 46 @@ "-" :> 45 @@ " " :> 32 @@
    "\t" :> 9 @@ "\n" :> 10 @@ "\r" :> 13

Chars == DOMAIN Ord

\* The character of a byte value; a byte outside the modelled alphabet is "?".
Chr(n) == IF \E c \in Chars : Ord[c] = n
          THEN CHOOSE c \in Chars : Ord[c] = n
          ELSE "?"

\* The characters Go's regexp class \s matches: [\t\n\f\r ].
Whitespace == {" ", "\t", "\n", "\r", "\f"}

Digits == <<"0", "1", "2", "3", "4", "5", "6", "7", "8", "9">>

HexDigits == Digits \o <<"A", "B", "C", "D", "E", "F">>

\* First index of character c in s, 0 when s does not contain c
\* (strings.Index + 1).
IndexOf(s, c) ==
    IF \E i \in 1..Len(s) : s[i] = c
    THEN CHOOSE i \in 1..Len(s) : s[i] = c /\ \A j \in 1..(i - 1) : s[j] # c
    ELSE 0

\* s[from..] as Go's s[from-1:], tolerant of from > Len(s).
Tail_(s, from) == SubSeq(s, from, Len(s))

RECURSIVE IntToStr(_)
\* fmt.Sprintf("%d", n) for n >= 0.
IntToStr(n) ==
    IF n < 10 THEN <<Digits[n + 1]>>
    ELSE IntToStr(n \div 10) \o <<Digits[(n % 10) + 1]>>

\* All strings over the alphabet cs of length at most n.
RECURSIVE StringsUpTo(_, _)
StringsUpTo(cs, n) ==
    IF n = 0 THEN {<<>>}
    ELSE LET shorter == StringsUpTo(cs, n - 1)
         IN  shorter \cup {Append(s, c) : s \in shorter, c \in cs}

(***************************************************************************)
(* Errors and url.Values                                                   *)
(***************************************************************************)

\* A Go error value: kind "nil" is the nil error; info carries the text the
\* error is formatted with.
Err(kind, info) == [kind |-> kind, info |-> info]

NilErr == Err("nil", <<>>)

\* errors.New("internal:invalid tracker reply"), net-io.go line 94.
ErrInvalidReply == Err("internal:invalid tracker reply", <<>>)

\* fmt.Errorf("mogilefsd:%s", code), net-io.go line 96.
ErrMogilefsd(code) == Err("mogilefsd", code)

\* A url.Values: isnil distinguishes the nil map from an empty one; m maps
\* each present key to the list of its values.
NilValues == [isnil |-> TRUE, m |-> <<>>]

MakeValues == [isnil |-> FALSE, m |-> <<>>]

\* url.Values.Add: append value to the list of key.
Add(v, key, value) ==
    [isnil |-> FALSE,
     m |-> IF key \in DOMAIN v.m
           THEN [v.m EXCEPT ![key] = Append(@, value)]
           ELSE (key :> <<value>>) @@ v.m]

\* url.Values.Set: replace the list of key by the single value.
Set(v, key, value) ==
    [isnil |-> FALSE,
     m |-> (key :> <<value>>) @@ [k \in (DOMAIN v.m) \ {key} |-> v.m[k]]]

\* url.Values.Get: the first value of key, "" when absent (also on nil).
Get(v, key) ==
    IF key \in DOMAIN v.m /\ Len(v.m[key]) > 0 THEN v.m[key][1] ELSE <<>>

(***************************************************************************)
(* net/url: QueryEscape, QueryUnescape, ParseQuery                         *)
(***************************************************************************)

IsHex(c) == \E i \in 1..Len(HexDigits) : HexDigits[i] = c
            \/ c \in {"a", "b", "c", "d", "e", "f"}

UnHex(c) ==
    IF c \in {"a", "b", "c", "d", "e", "f"} THEN Ord[c] - 97 + 10
    ELSE (CHOOSE i \in 1..Len(HexDigits) : HexDigits[i] = c) - 1

\* url.shouldEscape in query-component mode: letters, digits and -_.~ pass.
ShouldEscape(c) ==
    ~ (\/ Ord[c] \in 97..122
       \/ Ord[c] \in 65..90
       \/ Ord[c] \in 48..57
       \/ c \in {"-", "_", "."})

RECURSIVE QueryEscape(_)
\* url.QueryEscape: " " becomes "+", reserved bytes become %XX.
QueryEscape(s) ==
    IF s = <<>> THEN <<>>
    ELSE LET c == Head(s)
             e == IF c = " " THEN <<"+">>
                  ELSE IF ShouldEscape(c)
                       THEN <<"%", HexDigits[(Ord[c] \div 16) + 1],
                                   HexDigits[(Ord[c] % 16) + 1]>>
                       ELSE <<c>>
         IN  e \o QueryEscape(Tail(s))

RECURSIVE EscapesOk(_)
\* First loop of url.unescape: every % is followed by two hex digits.
EscapesOk(s) ==
    IF s = <<>> THEN TRUE
    ELSE IF Head(s) = "%"
         THEN /\ Len(s) >= 3
              /\ IsHex(s[2])
              /\ IsHex(s[3])
              /\ EscapesOk(Tail_(s, 4))
         ELSE EscapesOk(Tail(s))

RECURSIVE Decode(_)
\* Second loop of url.unescape in query mode, on a string EscapesOk accepts.
Decode(s) ==
    IF s = <<>> THEN <<>>
    ELSE IF Head(s) = "%"
         THEN <<Chr(UnHex(s[2]) * 16 + UnHex(s[3]))>> \o Decode(Tail_(s, 4))
         ELSE IF Head(s) = "+"
              THEN <<" ">> \o Decode(Tail(s))
              ELSE <<Head(s)>> \o Decode(Tail(s))

\* url.QueryUnescape: the decoded string, or an EscapeError.
QueryUnescape(s) ==
    IF EscapesOk(s) THEN [s |-> Decode(s), err |-> NilErr]
    ELSE [s |-> <<>>, err |-> Err("url.EscapeError", <<>>)]

RECURSIVE parseQuery(_, _, _)
\* url.parseQuery: split at "&", then at the first "=", unescape key and
\* value; a pair that fails to unescape is dropped and the first error kept.
parseQuery(m, query, err) ==
    IF query = <<>> THEN [values |-> m, err |-> err]
    ELSE LET i     == IndexOf(query, "&")
             seg   == IF i > 0 THEN SubSeq(query, 1, i - 1) ELSE query
             rest  == IF i > 0 THEN Tail_(query, i + 1) ELSE <<>>
             j     == IndexOf(seg, "=")
             key   == IF j > 0 THEN SubSeq(seg, 1, j - 1) ELSE seg
             value == IF j > 0 THEN Tail_(seg, j + 1) ELSE <<>>
             uk    == QueryUnescape(key)
             uv    == QueryUnescape(value)
             first(e) == IF err = NilErr THEN e ELSE err
         IN  IF seg = <<>> THEN parseQuery(m, rest, err)
             ELSE IF uk.err # NilErr THEN parseQuery(m, rest, first(uk.err))
             ELSE IF uv.err # NilErr THEN parseQuery(m, rest, first(uv.err))
             ELSE parseQuery(Add(m, uk.s, uv.s), rest, err)

\* url.ParseQuery: always returns a non-nil map, with the first error met.
ParseQuery(query) == parseQuery(MakeValues, query, NilErr)

(***************************************************************************)
(* String constants of the package                                         *)
(***************************************************************************)

\* "get_paths", net-io.go line 27.
CMD_GETPATHS ==
    <<"g", "e", "t", "_", "p", "a", "t", "h", "s">>

\* "rename", net-io.go line 28.
CMD_RENAME ==
    <<"r", "e", "n", "a", "m", "e">>

\* "delete", net-io.go line 29.
CMD_DELETE ==
    <<"d", "e", "l", "e", "t", "e">>

\* "file_debug", net-io.go line 30.
CMD_DEBUG ==
    <<"f", "i", "l", "e", "_", "d", "e", "b", "u", "g">>

\* "create_open", client.go line 197.
CMD_CREATE_OPEN ==
    <<"c", "r", "e", "a", "t", "e", "_", "o", "p", "e", "n">>

\* "create_close", client.go line 217.
CMD_CREATE_CLOSE ==
    <<"c", "r", "e", "a", "t", "e", "_", "c", "l", "o", "s", "e">>

\* The argument and reply keys client.go names.
K_domain ==
    <<"d", "o", "m", "a", "i", "n">>

K_key ==
    <<"k", "e", "y">>

K_class ==
    <<"c", "l", "a", "s", "s">>

K_fid ==
    <<"f", "i", "d">>

K_multi_dest ==
    <<"m", "u", "l", "t", "i", "_", "d", "e", "s", "t">>

K_devid ==
    <<"d", "e", "v", "i", "d">>

K_path ==
    <<"p", "a", "t", "h">>

K_size ==
    <<"s", "i", "z", "e">>

K_pathcount ==
    <<"p", "a", "t", "h", "c", "o", "u", "n", "t">>

K_noverify ==
    <<"n", "o", "v", "e", "r", "i", "f", "y">>

K_from_key ==
    <<"f", "r", "o", "m", "_", "k", "e", "y">>

K_to_key ==
    <<"t", "o", "_", "k", "e", "y">>

\* The literal "0" of create_args.Set("fid", "0").
S_0 ==
    <<"0">>

S_OK_ ==
    <<"O", "K", " ">>

S_ERR_ ==
    <<"E", "R", "R", " ">>

S_CRLF ==
    <<"\r", "\n">>

(***************************************************************************)
(* net-io.go: the reply grammars                                           *)
(***************************************************************************)

\* A variant of reMogileOk whose group keeps the "\r" ("^OK (.*)\n$").
reMogileOk_KeepCR(s) ==
    LET n  == Len(s)
        ok == /\ n >= 4
              /\ SubSeq(s, 1, 3) = S_OK_
              /\ s[n] = "\n"
              /\ \A i \in 4..(n - 1) : s[i] # "\n"
    IN  [matched |-> ok,
         group   |-> IF ok THEN SubSeq(s, 4, n - 1) ELSE <<>>]

\* reMogileOk = "^OK (.*)\r\n$": the line starts with "OK ", ends with
\* "\r\n" at the end of the text, and "." does not match "\n".  The result
\* is okMatch: matched is okMatch != nil, group is okMatch[0][1].
reMogileOk(s) ==
    LET n  == Len(s)
        ok == /\ n >= 5
              /\ SubSeq(s, 1, 3) = S_OK_
              /\ SubSeq(s, n - 1, n) = S_CRLF
              /\ \A i \in 4..(n - 2) : s[i] # "\n"
    IN  [matched |-> ok,
         group   |-> IF ok THEN SubSeq(s, 4, n - 2) ELSE <<>>]

\* A variant of reMogileFail whose group runs up to the last space of the
\* line ("^ERR (.+) ").
reMogileFail_Greedy(s) ==
    LET n    == Len(s)
        ends == {i \in 6..n :
                    s[i] = " " /\ \A j \in 5..(i - 1) : s[j] # "\n"}
        stop == IF ends = {} THEN 0
                ELSE CHOOSE i \in ends : \A j \in ends : j <= i
        ok   == n >= 6 /\ SubSeq(s, 1, 4) = S_ERR_ /\ stop > 5
    IN  [matched |-> ok,
         group   |-> IF ok THEN SubSeq(s, 5, stop - 1) ELSE <<>>]

\* reMogileFail = "^ERR (\S+) ": the line starts with "ERR ", followed by a
\* non-empty run of non-whitespace characters and then a space.
reMogileFail(s) ==
    LET n    == Len(s)
        \* index of the first whitespace character after "ERR "
        stop == IF \E i \in 5..n : s[i] \in Whitespace
                THEN CHOOSE i \in 5..n :
                        /\ s[i] \in Whitespace
                        /\ \A j \in 5..(i - 1) : s[j] \notin Whitespace
                ELSE 0
        ok   == /\ n >= 6
                /\ SubSeq(s, 1, 4) = S_ERR_
                /\ stop > 5
                /\ s[stop] = " "
    IN  [matched |-> ok,
         group   |-> IF ok THEN SubSeq(s, 5, stop - 1) ELSE <<>>]

\* bufio.Reader.ReadString('\n') on a connection on which the tracker sends
\* the bytes sent and then closes: the bytes up to and including the first
\* "\n", or everything sent together with io.EOF.
ReadString(sent) ==
    LET i == IndexOf(sent, "\n")
    IN  IF i > 0 THEN [line |-> SubSeq(sent, 1, i), err |-> NilErr]
        ELSE [line |-> sent, err |-> Err("EOF", <<>>)]

\* A variant of DecodeReply that leaves err as it is when the reply matches
\* neither grammar.
DecodeReply_KeepErr(tracker_reply, err) ==
    IF Len(tracker_reply) > 0
    THEN LET okMatch   == reMogileOk(tracker_reply)
             failMatch == reMogileFail(tracker_reply)
         IN  IF ~ okMatch.matched
             THEN IF ~ failMatch.matched
                  THEN [values |-> NilValues, err |-> err]
                  ELSE [values |-> NilValues,
                        err    |-> ErrMogilefsd(failMatch.group)]
             ELSE ParseQuery(okMatch.group)
    ELSE [values |-> NilValues, err |-> err]

\* Lines 88-103 of DoRequest: decode tracker_reply; err is the error of the
\* connection, write and read steps, kept when the reply is empty.
DecodeReply(tracker_reply, err) ==
    IF Len(tracker_reply) > 0
    THEN LET okMatch   == reMogileOk(tracker_reply)
             failMatch == reMogileFail(tracker_reply)
         IN  IF ~ okMatch.matched
             THEN IF ~ failMatch.matched
                  THEN [values |-> NilValues, err |-> ErrInvalidReply]
                  ELSE [values |-> NilValues,
                        err    |-> ErrMogilefsd(failMatch.group)]
             ELSE ParseQuery(okMatch.group)
    ELSE [values |-> NilValues, err |-> err]

(***************************************************************************)
(* The events of one call: what the client did on the network              *)
(***************************************************************************)

Event(ev, host, ok, cmd, args, data, status) ==
    [ev |-> ev, host |-> host, ok |-> ok, cmd |-> cmd, args |-> args,
     data |-> data, status |-> status]

\* net.DialTimeout("tcp", host, ...) and its outcome.
EvDial(host, ok) == Event("dial", host, ok, <<>>, NilValues, <<>>, 0)

\* tracker_conn.Write of the request made of command and args.
EvWrite(host, ok, cmd, args) == Event("write", host, ok, cmd, args, <<>>, 0)

\* b.ReadString('\n'): data is the reply read.
EvRead(host, ok, line) == Event("read", host, ok, <<>>, NilValues, line, 0)

\* conn.Close() in returnTrackerConnection.
EvClose(host) == Event("close", host, TRUE, <<>>, NilValues, <<>>, 0)

\* An HTTP request to a storage node: host is the URL, cmd the method, data
\* the body transferred, status the response status (0: the request failed).
EvHttp(method, path, ok, body, status) ==
    Event("http", path, ok, method, NilValues, body, status)

(***************************************************************************)
(* net-io.go: getTrackerConnection, returnTrackerConnection, DoRequest      *)
(***************************************************************************)

\* A net.Conn: the nil interface, or a connection to host.
NilConn == [isnil |-> TRUE, host |-> <<>>]

Conn(host) == [isnil |-> FALSE, host |-> host]

RECURSIVE DialFrom(_, _, _, _, _)
\* The loop of getTrackerConnection from index i on: up is the set of hosts
\* that accept a connection.  last is m.last_tracker, err the last dial
\* error, dials the dial attempts made so far.
DialFrom(tr, up, i, st, dials) ==
    IF i > Len(tr) THEN [st EXCEPT !.io = dials]
    ELSE LET host == tr[i]
             ok   == host \in up
             st2  == [conn         |-> IF ok THEN Conn(host) ELSE NilConn,
                      err          |-> IF ok THEN NilErr
                                       ELSE Err("dial", host),
                      last_tracker |-> host,
                      io           |-> <<>>]
             d2   == Append(dials, EvDial(host, ok))
         IN  IF ok THEN [st2 EXCEPT !.io = d2]
             ELSE DialFrom(tr, up, i + 1, st2, d2)

\* A variant of getTrackerConnection that avoids the host used last when
\* the list names another one.
getTrackerConnection_AvoidLast(tr, last, dead, clock, up) ==
    DialFrom(IF SelectSeq(tr, LAMBDA h : h # last) = <<>> THEN tr
             ELSE SelectSeq(tr, LAMBDA h : h # last),
             up, 1,
             [conn |-> NilConn, err |-> NilErr, last_tracker |-> last,
              io |-> <<>>],
             <<>>)

\* getTrackerConnection: the blacklist m.dead_trackers is not consulted and
\* not changed ("fixme: this should blacklist known bad hosts").
getTrackerConnection(tr, last, dead, clock, up) ==
    DialFrom(tr, up, 1,
             [conn |-> NilConn, err |-> NilErr, last_tracker |-> last,
              io |-> <<>>],
             <<>>)

\* returnTrackerConnection: close the connection.
returnTrackerConnection(conn) == <<EvClose(conn.host)>>

\* A variant of DoRequest that returns the connection only after a
\* write that succeeded.
DoRequest_LeakOnWriteError(tr, last, dead, clock, command, args, up, wok, sent) ==
    LET g     == getTrackerConnection(tr, last, dead, clock, up)
        host  == g.conn.host
        panic == g.err = NilErr /\ g.conn.isnil
        rs    == ReadString(sent)
        wr    == <<EvWrite(host, wok, command, args)>>
        rd    == IF wok THEN <<EvRead(host, rs.err = NilErr, rs.line)>>
                 ELSE <<>>
        reply == IF g.err = NilErr /\ wok THEN rs.line ELSE <<>>
        err   == IF g.err # NilErr THEN g.err
                 ELSE IF ~ wok THEN Err("write", host)
                 ELSE rs.err
        dec   == DecodeReply(reply, err)
    IN  IF panic
        THEN [values |-> NilValues, err |-> NilErr, panicked |-> TRUE,
              last_tracker |-> g.last_tracker, io |-> g.io]
        ELSE [values |-> dec.values, err |-> dec.err, panicked |-> FALSE,
              last_tracker |-> g.last_tracker,
              io |-> IF g.err = NilErr
                     THEN g.io \o wr \o rd
                          \o (IF wok THEN returnTrackerConnection(g.conn)
                              ELSE <<>>)
                     ELSE g.io]

\* A variant of DoRequest that writes the request a second time when the
\* write failed.
DoRequest_ResendOnError(tr, last, dead, clock, command, args, up, wok, sent) ==
    LET g     == getTrackerConnection(tr, last, dead, clock, up)
        host  == g.conn.host
        panic == g.err = NilErr /\ g.conn.isnil
        rs    == ReadString(sent)
        w1    == <<EvWrite(host, wok, command, args)>>
        wr    == IF wok THEN w1 ELSE w1 \o w1
        rd    == IF wok THEN <<EvRead(host, rs.err = NilErr, rs.line)>>
                 ELSE <<>>
        reply == IF g.err = NilErr /\ wok THEN rs.line ELSE <<>>
        err   == IF g.err # NilErr THEN g.err
                 ELSE IF ~ wok THEN Err("write", host)
                 ELSE rs.err
        dec   == DecodeReply(reply, err)
    IN  IF panic
        THEN [values |-> NilValues, err |-> NilErr, panicked |-> TRUE,
              last_tracker |-> g.last_tracker, io |-> g.io]
        ELSE [values |-> dec.values, err |-> dec.err, panicked |-> FALSE,
              last_tracker |-> g.last_tracker,
              io |-> IF g.err = NilErr
                     THEN g.io \o wr \o rd \o returnTrackerConnection(g.conn)
                     ELSE g.io]

\* DoRequest: up, wok and sent are the behaviour of the network during the
\* call (hosts accepting a connection, whether the write succeeds, the
\* bytes the tracker sends back before it closes).  A nil connection
\* returned with a nil error makes tracker_conn.Write panic.
DoRequest(tr, last, dead, clock, command, args, up, wok, sent) ==
    LET g     == getTrackerConnection(tr, last, dead, clock, up)
        host  == g.conn.host
        panic == g.err = NilErr /\ g.conn.isnil
        rs    == ReadString(sent)
        wr    == <<EvWrite(host, wok, command, args)>>
        rd    == IF wok THEN <<EvRead(host, rs.err = NilErr, rs.line)>>
                 ELSE <<>>
        reply == IF g.err = NilErr /\ wok THEN rs.line ELSE <<>>
        err   == IF g.err # NilErr THEN g.err
                 ELSE IF ~ wok THEN Err("write", host)
                 ELSE rs.err
        dec   == DecodeReply(reply, err)
    IN  IF panic
        THEN [values |-> NilValues, err |-> NilErr, panicked |-> TRUE,
              last_tracker |-> g.last_tracker, io |-> g.io]
        ELSE [values |-> dec.values, err |-> dec.err, panicked |-> FALSE,
              last_tracker |-> g.last_tracker,
              io |-> IF g.err = NilErr
                     THEN g.io \o wr \o rd \o returnTrackerConnection(g.conn)
                     ELSE g.io]

(***************************************************************************)
(* The tracker blacklist (client.go lines 241-282)                         *)
(***************************************************************************)

\* blacklist_duration = time.Duration(60) * time.Second, in seconds.
blacklist_duration == 60

\* m.dead_trackers[tracker].IsZero(): a host without an entry reads as the
\* zero time.
IsZero(dead, tracker) == tracker \notin DOMAIN dead

\* delete(m.dead_trackers, tracker)
Delete_(dead, tracker) == [h \in (DOMAIN dead) \ {tracker} |-> dead[h]]

\* markTrackerAsAlive: remove the entry of tracker if there is one.
markTrackerAsAlive(dead, tracker) ==
    IF ~ IsZero(dead, tracker) THEN Delete_(dead, tracker) ELSE dead

\* A variant of trackerIsBad that keeps the tracker bad for ever.
trackerIsBad_NoExpiry(dead, tracker, clock) ==
    IF ~ IsZero(dead, tracker)
    THEN [isdown |-> TRUE, dead |-> dead]
    ELSE [isdown |-> FALSE, dead |-> dead]

\* A variant of trackerIsBad that takes an entry whose expiry is before the
\* clock for absent and leaves it in the map.
trackerIsBad_IgnoreExpired(dead, tracker, clock) ==
    IF ~ IsZero(dead, tracker) /\ ~ (dead[tracker] < clock)
    THEN [isdown |-> TRUE, dead |-> dead]
    ELSE [isdown |-> FALSE, dead |-> dead]

\* trackerIsBad: an entry whose expiry is before the clock is removed; any
\* other entry makes the tracker bad.
trackerIsBad(dead, tracker, clock) ==
    IF ~ IsZero(dead, tracker)
    THEN IF dead[tracker] < clock
         THEN [isdown |-> FALSE, dead |-> markTrackerAsAlive(dead, tracker)]
         ELSE [isdown |-> TRUE, dead |-> dead]
    ELSE [isdown |-> FALSE, dead |-> dead]

\* A variant of markTrackerAsBad that renews the entry of a tracker that is
\* blacklisted already.
markTrackerAsBad_Renew(dead, tracker, clock) ==
    (tracker :> (clock + blacklist_duration))
    @@ trackerIsBad(dead, tracker, clock).dead

\* markTrackerAsBad: blacklist tracker until clock + blacklist_duration
\* unless trackerIsBad reports it bad already.
markTrackerAsBad(dead, tracker, clock) ==
    LET b == trackerIsBad(dead, tracker, clock)
    IN  IF ~ b.isdown
        THEN (tracker :> (clock + blacklist_duration)) @@ b.dead
        ELSE b.dead

(***************************************************************************)
(* client.go: GetPaths, Rename, Delete, Debug                              *)
(***************************************************************************)

\* A *GetPathsOpts: nil, or the two options.
NilOpts == [isnil |-> TRUE, NoVerify |-> FALSE, Pathcount |-> 0]

GetPathsOpts(noVerify, pathcount) ==
    [isnil |-> FALSE, NoVerify |-> noVerify, Pathcount |-> pathcount]

boolToInt(value) == IF value THEN 1 ELSE 0

\* The bound of the loop "for i := 1; i < 255; i++" of GetPaths.
PathScanLimit == 255

\* A variant of ScanPaths that reads the key "path" instead of "path<i>".
ScanPaths_PathKey(values, i, paths) ==
    LET thisPath == Get(values, K_path)
    IN  IF Len(thisPath) = 0 THEN paths ELSE Append(paths, thisPath)

RECURSIVE ScanPaths_NoLimit(_, _, _)
\* A variant of ScanPaths without the bound of the loop.
ScanPaths_NoLimit(values, i, paths) ==
    LET thisPath == Get(values, K_path \o IntToStr(i))
    IN  IF Len(thisPath) = 0 THEN paths
        ELSE ScanPaths_NoLimit(values, i + 1, Append(paths, thisPath))

RECURSIVE ScanPaths(_, _, _)
\* The loop of GetPaths from index i on: stop at the first empty path<i>.
ScanPaths(values, i, paths) ==
    IF ~ (i < PathScanLimit) THEN paths
    ELSE LET thisPath == Get(values, K_path \o IntToStr(i))
         IN  IF Len(thisPath) = 0 THEN paths
             ELSE ScanPaths(values, i + 1, Append(paths, thisPath))

\* A variant of GetPathsArgs whose smallest pathcount is 1.
GetPathsArgs_MinOne(dom, key, opts) ==
    LET o1 == IF opts.isnil THEN GetPathsOpts(TRUE, 0) ELSE opts
        o2 == IF o1.Pathcount < 1 THEN [o1 EXCEPT !.Pathcount = 1] ELSE o1
    IN  Add(Add(Add(Add(MakeValues, K_key, key), K_domain, dom),
                K_pathcount, IntToStr(o2.Pathcount)),
            K_noverify, IntToStr(boolToInt(o2.NoVerify)))

\* The request arguments of GetPaths (lines 76-89).
GetPathsArgs(dom, key, opts) ==
    LET o1 == IF opts.isnil THEN GetPathsOpts(TRUE, 0) ELSE opts
        o2 == IF o1.Pathcount < 2 THEN [o1 EXCEPT !.Pathcount = 2] ELSE o1
    IN  Add(Add(Add(Add(MakeValues, K_key, key), K_domain, dom),
                K_pathcount, IntToStr(o2.Pathcount)),
            K_noverify, IntToStr(boolToInt(o2.NoVerify)))

\* Lines 91-106 of GetPaths: rq is what DoRequest returned; the paths are
\* scanned only when it returned no error.
PathsOfReply(rq) ==
    [paths        |-> IF rq.err = NilErr /\ ~ rq.values.isnil
                         /\ ~ rq.panicked
                      THEN ScanPaths(rq.values, 1, <<>>)
                      ELSE <<>>,
     err          |-> rq.err,
     panicked     |-> rq.panicked,
     last_tracker |-> rq.last_tracker,
     io           |-> rq.io]

GetPaths(dom, tr, last, dead, clock, key, opts, up, wok, sent) ==
    PathsOfReply(DoRequest(tr, last, dead, clock, CMD_GETPATHS,
                           GetPathsArgs(dom, key, opts), up, wok, sent))

\* A variant of RenameArgs with the two keys exchanged.
RenameArgs_Swapped(dom, oldname, newname) ==
    Add(Add(Add(MakeValues, K_domain, dom), K_from_key, newname),
        K_to_key, oldname)

RenameArgs(dom, oldname, newname) ==
    Add(Add(Add(MakeValues, K_domain, dom), K_from_key, oldname),
        K_to_key, newname)

\* Rename: one request; the values of the reply are dropped.
Rename(dom, tr, last, dead, clock, oldname, newname, up, wok, sent) ==
    [DoRequest(tr, last, dead, clock, CMD_RENAME,
               RenameArgs(dom, oldname, newname), up, wok, sent)
     EXCEPT !.values = NilValues]

KeyArgs(dom, key) == Add(Add(MakeValues, K_domain, dom), K_key, key)

\* Delete: one request; the values of the reply are dropped.
Delete(dom, tr, last, dead, clock, key, up, wok, sent) ==
    [DoRequest(tr, last, dead, clock, CMD_DELETE, KeyArgs(dom, key),
               up, wok, sent)
     EXCEPT !.values = NilValues]

\* Debug: one request; values and error are returned as they are.
Debug(dom, tr, last, dead, clock, key, up, wok, sent) ==
    DoRequest(tr, last, dead, clock, CMD_DEBUG, KeyArgs(dom, key),
              up, wok, sent)

(***************************************************************************)
(* client.go: Fetch                                                        *)
(***************************************************************************)

\* An io.ReadCloser: nil, or the body of an HTTP response.
NilReader == [isnil |-> TRUE, body |-> <<>>]

Body(b) == [isnil |-> FALSE, body |-> b]

\* The outcome of one HTTP exchange: ok is FALSE when the request itself
\* failed (rqErr != nil); otherwise status and body are the response.
HttpOutcome(ok, status, body) == [ok |-> ok, status |-> status, body |-> body]

\* fmt.Errorf("Invalid HTTP Status code: %d", status), line 172.
ErrHttpStatus(status) == Err("Invalid HTTP Status code", IntToStr(status))

\* A variant of FetchLoop that gives up after the first path.
FetchLoop_FirstOnly(paths, gets, i, err, io) ==
    IF i > Len(paths) THEN [r |-> NilReader, err |-> err, io |-> io]
    ELSE LET o  == gets[i]
             ev == EvHttp(<<"G", "E", "T">>, paths[i], o.ok,
                          IF o.ok THEN o.body ELSE <<>>,
                          IF o.ok THEN o.status ELSE 0)
         IN  IF o.ok /\ o.status = 200
             THEN [r |-> Body(o.body), err |-> NilErr, io |-> Append(io, ev)]
             ELSE [r |-> NilReader,
                   err |-> IF o.ok THEN ErrHttpStatus(o.status)
                           ELSE Err("http.Get", paths[i]),
                   io |-> Append(io, ev)]

RECURSIVE FetchLoop(_, _, _, _, _)
\* The loop of Fetch over paths from index i on; gets[i] is the outcome of
\* the i-th http.Get of the call.
FetchLoop(paths, gets, i, err, io) ==
    IF i > Len(paths) THEN [r |-> NilReader, err |-> err, io |-> io]
    ELSE LET o  == gets[i]
             ev == EvHttp(<<"G", "E", "T">>, paths[i], o.ok,
                          IF o.ok THEN o.body ELSE <<>>,
                          IF o.ok THEN o.status ELSE 0)
         IN  IF o.ok
             THEN IF o.status = 200
                  THEN [r |-> Body(o.body), err |-> NilErr,
                        io |-> Append(io, ev)]
                  ELSE FetchLoop(paths, gets, i + 1, ErrHttpStatus(o.status),
                                 Append(io, ev))
             ELSE FetchLoop(paths, gets, i + 1, Err("http.Get", paths[i]),
                            Append(io, ev))

\* Lines 161-178 of Fetch: gp is what GetPaths returned; the paths are
\* tried only when it returned no error.
FetchPaths(gp, gets) ==
    LET lp == FetchLoop(gp.paths, gets, 1, gp.err, gp.io)
    IN  IF gp.panicked \/ gp.err # NilErr
        THEN [r |-> NilReader, err |-> gp.err, panicked |-> gp.panicked,
              paths |-> gp.paths, trerr |-> gp.err,
              last_tracker |-> gp.last_tracker, io |-> gp.io]
        ELSE [r |-> lp.r, err |-> lp.err, panicked |-> FALSE,
              paths |-> gp.paths, trerr |-> gp.err,
              last_tracker |-> gp.last_tracker, io |-> lp.io]

Fetch(dom, tr, last, dead, clock, key, up, wok, sent, gets) ==
    FetchPaths(GetPaths(dom, tr, last, dead, clock, key, NilOpts,
                        up, wok, sent), gets)

(***************************************************************************)
(* client.go: Create                                                       *)
(***************************************************************************)

\* countingReader{r: r}: a reader that counts the bytes read through it.
countingReader == [nbytes |-> 0]

\* countingReader.Read returning n bytes: nbytes grows by n.
countingReaderRead(cr, n) == [cr EXCEPT !.nbytes = @ + n]

RECURSIVE ReadAll(_, _)
\* The HTTP client reading the request body in reads of the lengths chunks.
ReadAll(cr, chunks) ==
    IF chunks = <<>> THEN cr
    ELSE ReadAll(countingReaderRead(cr, Head(chunks)), Tail(chunks))

RECURSIVE Sum(_)
Sum(chunks) == IF chunks = <<>> THEN 0 ELSE Head(chunks) + Sum(Tail(chunks))

\* The outcome of the PUT: kind "badurl" when http.NewRequest fails,
\* "neterr" when client.Do fails, "response" when the storage node answers
\* with status; chunks are the lengths of the reads made on the body.
PutOutcome(kind, status, chunks) ==
    [kind |-> kind, status |-> status, chunks |-> chunks]

\* fmt.Errorf("Invalid HTTP Status code of storage daemon: %d", ...).
ErrStorageStatus(status) ==
    Err("Invalid HTTP Status code of storage daemon", IntToStr(status))

\* create_args, lines 190-195.
CreateArgs(dom, key, class) ==
    Set(Set(Set(Set(Set(MakeValues, K_domain, dom), K_key, key),
                K_class, class), K_fid, S_0), K_multi_dest, S_0)

\* A variant of CloseArgs that sends the length the tracker named instead
\* of the bytes counted.
CloseArgs_SizeFromTracker(create_args, create_values, cr) ==
    Set(Set(Set(Set(Set(Set(MakeValues,
        K_domain, Get(create_args, K_domain)),
        K_key, Get(create_args, K_key)),
        K_fid, Get(create_values, K_fid)),
        K_devid, Get(create_values, K_devid)),
        K_path, Get(create_values, K_path)),
        K_size, Get(create_values, K_size))

\* close_args, lines 210-216.
CloseArgs(create_args, create_values, cr) ==
    Set(Set(Set(Set(Set(Set(MakeValues,
        K_domain, Get(create_args, K_domain)),
        K_key, Get(create_args, K_key)),
        K_fid, Get(create_values, K_fid)),
        K_devid, Get(create_values, K_devid)),
        K_path, Get(create_values, K_path)),
        K_size, IntToStr(cr.nbytes))

\* A variant of PutAccepted that accepts every 2xx status.
PutAccepted_Any2xx(status) == status \in 200..299

\* The test of line 209 on the status of the PUT response.
PutAccepted(status) == status = 200

\* A variant of HasPath that does not look at the path.
HasPath_ErrOnly(err, create_values) == err = NilErr

\* The condition of line 200 under which Create goes on to the PUT.
HasPath(err, create_values) ==
    err = NilErr /\ Len(Get(create_values, K_path)) > 0

\* Create: data is the content of the reader r; open and close are the
\* network behaviours (up, wok, sent) of the two tracker requests, put is
\* the outcome of the PUT.
Create(dom, tr, last, dead, clock, key, class, data, open, put, close) ==
    LET create_args == CreateArgs(dom, key, class)
        o     == DoRequest(tr, last, dead, clock, CMD_CREATE_OPEN,
                           create_args, open.up, open.wok, open.sent)
        path  == Get(o.values, K_path)
        cr    == ReadAll(countingReader, put.chunks)
        body  == SubSeq(data, 1, Sum(put.chunks))
        putEv == EvHttp(<<"P", "U", "T">>, path, put.kind = "response", body,
                        IF put.kind = "response" THEN put.status ELSE 0)
        c     == DoRequest(tr, o.last_tracker, dead, clock, CMD_CREATE_CLOSE,
                           CloseArgs(create_args, o.values, cr),
                           close.up, close.wok, close.sent)
        res(values, err, panicked, last_tracker, io) ==
            [values |-> values, err |-> err, panicked |-> panicked,
             trerr |-> o.err, open |-> o.values,
             last_tracker |-> last_tracker, io |-> io]
    IN  IF o.panicked
        THEN res(NilValues, NilErr, TRUE, o.last_tracker, o.io)
        ELSE IF ~ HasPath(o.err, o.values)
        THEN res(NilValues, o.err, FALSE, o.last_tracker, o.io)
        ELSE IF put.kind = "badurl"
        THEN res(NilValues, Err("http.NewRequest", path), FALSE,
                 o.last_tracker, o.io)
        ELSE IF put.kind = "neterr"
        THEN res(NilValues, Err("http.Do", path), FALSE, o.last_tracker,
                 Append(o.io, putEv))
        ELSE IF PutAccepted(put.status)
        THEN res(c.values, c.err, c.panicked, c.last_tracker,
                 Append(o.io, putEv) \o c.io)
        ELSE res(NilValues, ErrStorageStatus(put.status), FALSE,
                 o.last_tracker, Append(o.io, putEv))

(***************************************************************************)
(* The state                                                               *)
(***************************************************************************)

VARIABLES
    domain,         \* MogileFsClient.domain
    trackers,       \* MogileFsClient.trackers
    dead_trackers,  \* MogileFsClient.dead_trackers: host -> end of blacklist
    last_tracker,   \* MogileFsClient.last_tracker
    now,            \* time.Now(), in seconds
    store,          \* the storage nodes: path -> content stored by a PUT
    registry,       \* the tracker: key -> path closed by create_close
    nextfid,        \* the tracker: the next file id create_open hands out
    uploaded,       \* key -> content of the last Create that returned nil
    io,             \* the network events of the last call, in order
    ret,            \* the last call: its arguments and what it returned
    calls,          \* the goroutines running DoRequest: their local variables
    conns           \* the TCP connections to the trackers ever established

client == <<domain, trackers, dead_trackers, last_tracker>>

cluster == <<store, registry, nextfid, uploaded>>

conc == <<calls, conns>>

vars == <<domain, trackers, dead_trackers, last_tracker, now, store,
          registry, nextfid, uploaded, io, ret, calls, conns>>

(***************************************************************************)
(* Bounds and input sets                                                   *)
(***************************************************************************)

\* The longest configured tracker list.
MaxTrackers == 2

\* The clock stops advancing at MaxTime seconds.
MaxTime == 80

\* The clock advances in steps of a third of the blacklist duration.
TickStep == blacklist_duration \div 3

\* The longest content uploaded.
MaxData == 2

\* The number of candidate paths a get_paths reply carries at most.
MaxPaths == 2

\* The number of files the tracker hands out ids for.
MaxFid == 2

H1 == <<"h", "1">>

H2 == <<"h", "2">>

Hosts == {H1, H2}

\* Every tracker list New can be given, up to the bound (the empty list
\* and lists naming a host twice included).
TrackerLists == UNION {[1..n -> Hosts] : n \in 0..MaxTrackers}

TheDomain == <<"d">>

TheKey == <<"k">>

Keys == {TheKey, <<"k", "2">>}

U1 == <<"u", "1">>

U2 == <<"u", "2">>

\* The storage URLs a tracker hands out: "u<fid>".
PathOf(fid) == <<"u">> \o IntToStr(fid)

Contents == StringsUpTo({"x", "y"}, MaxData)

\* The ways a reader of n bytes can be read: lengths of the successive
\* reads, in total at most n.
RECURSIVE Chunkings(_)
Chunkings(n) ==
    {<<>>} \cup UNION {{<<k>> \o c : c \in Chunkings(n - k)} : k \in 1..n}

RECURSIVE EncodePairs(_)
\* A query string as a tracker writes it: escaped key=value joined by "&".
EncodePairs(pairs) ==
    IF pairs = <<>> THEN <<>>
    ELSE QueryEscape(pairs[1][1]) \o <<"=">> \o QueryEscape(pairs[1][2])
         \o (IF Len(pairs) > 1 THEN <<"&">> ELSE <<>>)
         \o EncodePairs(Tail(pairs))

\* "OK <query string>\r\n"
OkLine(pairs) == S_OK_ \o EncodePairs(pairs) \o S_CRLF

\* "ERR <code> <message>\r\n"
ErrLine(code, msg) == S_ERR_ \o code \o <<" ">> \o msg \o S_CRLF

UnknownKey == <<"u", "n", "k", "n", "o", "w", "n", "_", "k", "e", "y">>

\* The get_paths reply naming the paths ps as path1, path2, ...
PathsLine(ps) ==
    OkLine([i \in 1..Len(ps) |-> <<K_path \o IntToStr(i), ps[i]>>])

\* The create_open reply handing out fid, devid and path.
OpenLine(fid, path) ==
    OkLine(<<<<K_fid, IntToStr(fid)>>, <<K_devid, <<"1">>>>,
             <<K_path, path>>>>)

\* What a tracker may send back on a connection before it closes it.
Replies ==
    {<<>>,
     OkLine(<<>>),
     PathsLine(<<U1>>),
     PathsLine(<<U1, U2>>),
     OpenLine(1, U1),
     ErrLine(UnknownKey, <<"m">>),
     <<"x", "\r", "\n">>}

\* The behaviour of the network during one tracker request: the hosts
\* that accept a connection, whether the write succeeds, the bytes the
\* tracker sends back, and the key/value pairs the tracker encoded into
\* them (<<>> when it sent something else).
Net(up, wok, sent) == [up |-> up, wok |-> wok, sent |-> sent, pairs |-> <<>>]

\* A tracker answering with the OK line of the key/value pairs.
OkNet(up, wok, pairs) ==
    [up |-> up, wok |-> wok, sent |-> OkLine(pairs), pairs |-> pairs]

Nets == {Net(up, wok, sent) :
            up \in SUBSET Hosts, wok \in BOOLEAN, sent \in Replies}

(***************************************************************************)
(* Init and the record of the last call                                    *)
(***************************************************************************)

\* The record of a call: op names the operation, key and data its
\* arguments; up is the set of hosts that accepted connections during the
\* call, pairs what the tracker encoded into its reply, trerr the error of
\* its first tracker request and open the values of that request's reply,
\* opts the options of GetPaths, at the time of the call, before the
\* blacklist a call of trackerIsBad found;
\* the other fields are what it returned.
NoCall ==
    [op |-> "none", key |-> <<>>, data |-> <<>>, trerr |-> NilErr,
     open |-> NilValues, panicked |-> FALSE, values |-> NilValues,
     err |-> NilErr, paths |-> <<>>, r |-> NilReader, isdown |-> FALSE,
     up |-> {}, pairs |-> <<>>, opts |-> NilOpts, at |-> 0,
     before |-> <<>>]

\* The record of a call of op that returned what DoRequest returned.
RequestRet(op, key, data, net, res) ==
    [NoCall EXCEPT !.op = op, !.key = key, !.data = data, !.up = net.up,
                   !.pairs = net.pairs, !.at = now,
                   !.trerr = res.err, !.panicked = res.panicked,
                   !.values = res.values, !.err = res.err]

\* The number of goroutines that call DoRequest on the one client.
MaxCalls == 2

Procs == 1..MaxCalls

\* The local variables of a goroutine in DoRequest and getTrackerConnection:
\* pc is where it stands, i the index of the range loop, conn the
\* connection getTrackerConnection returned (0: nil), err, tracker_reply and
\* values the variables of DoRequest; wrote and readfrom are the connections
\* its Write and its ReadString went to.
NoGoroutine ==
    [pc |-> "idle", i |-> 0, conn |-> 0, err |-> NilErr,
     tracker_reply |-> <<>>, values |-> NilValues, wrote |-> 0,
     readfrom |-> 0]

\* New(domain, trackers): no host blacklisted, no tracker used yet.
Init ==
    /\ domain = TheDomain
    /\ trackers \in TrackerLists
    /\ dead_trackers = <<>>
    /\ last_tracker = <<>>
    /\ now = 0
    /\ store = <<>>
    /\ registry = <<>>
    /\ nextfid = 1
    /\ uploaded = <<>>
    /\ io = <<>>
    /\ ret = NoCall
    /\ calls = [g \in Procs |-> NoGoroutine]
    /\ conns = <<>>

\* A call that panicked ended the program.
Running == ~ ret.panicked

\* No call was made yet.
Fresh == ret.op = "none"

(***************************************************************************)
(* The actions: one per operation of the client                            *)
(***************************************************************************)

\* m.DoRequest(command, args)
DoRequestCall(command, args, net) ==
    \E res \in {DoRequest(trackers, last_tracker, dead_trackers, now,
                           command, args, net.up, net.wok, net.sent)} :
        /\ Running
        /\ last_tracker' = res.last_tracker
        /\ io' = res.io
        /\ ret' = RequestRet("DoRequest", <<>>, <<>>, net, res)
        /\ UNCHANGED <<domain, trackers, dead_trackers, now, cluster, conc>>

\* m.GetPaths(key, opts)
GetPathsCall(key, opts, net) ==
    \E res \in {GetPaths(domain, trackers, last_tracker, dead_trackers, now,
                          key, opts, net.up, net.wok, net.sent)} :
        /\ Running
        /\ last_tracker' = res.last_tracker
        /\ io' = res.io
        /\ ret' = [NoCall EXCEPT !.op = "GetPaths", !.key = key,
                                 !.opts = opts,
                                 !.up = net.up, !.pairs = net.pairs,
                                 !.trerr = res.err,
                                 !.panicked = res.panicked,
                                 !.err = res.err, !.paths = res.paths]
        /\ UNCHANGED <<domain, trackers, dead_trackers, now, cluster, conc>>

\* m.Rename(oldname, newname)
RenameCall(oldname, newname, net) ==
    \E res \in {Rename(domain, trackers, last_tracker, dead_trackers, now,
                        oldname, newname, net.up, net.wok, net.sent)} :
        /\ Running
        /\ last_tracker' = res.last_tracker
        /\ io' = res.io
        /\ ret' = RequestRet("Rename", oldname, newname, net, res)
        /\ UNCHANGED <<domain, trackers, dead_trackers, now, cluster, conc>>

\* m.Delete(key)
DeleteCall(key, net) ==
    \E res \in {Delete(domain, trackers, last_tracker, dead_trackers, now,
                        key, net.up, net.wok, net.sent)} :
        /\ Running
        /\ last_tracker' = res.last_tracker
        /\ io' = res.io
        /\ ret' = RequestRet("Delete", key, <<>>, net, res)
        /\ UNCHANGED <<domain, trackers, dead_trackers, now, cluster, conc>>

\* m.Debug(key)
DebugCall(key, net) ==
    \E res \in {Debug(domain, trackers, last_tracker, dead_trackers, now,
                       key, net.up, net.wok, net.sent)} :
        /\ Running
        /\ last_tracker' = res.last_tracker
        /\ io' = res.io
        /\ ret' = RequestRet("Debug", key, <<>>, net, res)
        /\ UNCHANGED <<domain, trackers, dead_trackers, now, cluster, conc>>

\* m.Fetch(key)
FetchCall(key, net, gets) ==
    \E res \in {Fetch(domain, trackers, last_tracker, dead_trackers, now,
                       key, net.up, net.wok, net.sent, gets)} :
        /\ Running
        /\ last_tracker' = res.last_tracker
        /\ io' = res.io
        /\ ret' = [NoCall EXCEPT !.op = "Fetch", !.key = key,
                                 !.up = net.up,
                                 !.trerr = res.trerr,
                                 !.panicked = res.panicked,
                                 !.err = res.err, !.paths = res.paths,
                                 !.r = res.r]
        /\ UNCHANGED <<domain, trackers, dead_trackers, now, cluster, conc>>

\* The PUT events of a call that a storage node answered with 200.
StoredPuts(events) ==
    {i \in 1..Len(events) :
        /\ events[i].ev = "http"
        /\ events[i].cmd = <<"P", "U", "T">>
        /\ events[i].ok
        /\ events[i].status = 200}

\* The create_open and create_close requests of a call that reached a
\* tracker.
Written(events, command) ==
    {i \in 1..Len(events) :
        /\ events[i].ev = "write"
        /\ events[i].cmd = command
        /\ events[i].ok}

\* m.Create(key, class, r), r a reader of the bytes data.  The cluster
\* follows: a storage node that answers a PUT with 200 has stored the body
\* it received, a tracker that answers create_close with OK has registered
\* the path for the key, a tracker that received create_open has used up a
\* file id.
CreateCall(key, class, data, open, put, close) ==
    \E res \in {Create(domain, trackers, last_tracker, dead_trackers, now,
                        key, class, data, open, put, close)} :
      \E puts \in {StoredPuts(res.io)},
         closes \in {Written(res.io, CMD_CREATE_CLOSE)} :
        LET put1   == res.io[CHOOSE i \in puts : TRUE]
            close1 == res.io[CHOOSE i \in closes : TRUE]
        IN  /\ Running
            /\ nextfid <= MaxFid
            /\ last_tracker' = res.last_tracker
            /\ io' = res.io
            /\ ret' = [NoCall EXCEPT !.op = "Create", !.key = key,
                                     !.up = open.up,
                                     !.data = data, !.trerr = res.trerr,
                                     !.open = res.open,
                                     !.panicked = res.panicked,
                                     !.values = res.values, !.err = res.err]
            /\ store' = IF puts # {}
                        THEN (put1.host :> put1.data)
                             @@ [p \in (DOMAIN store) \ {put1.host} |->
                                     store[p]]
                        ELSE store
            /\ registry' = IF closes # {} /\ res.err = NilErr /\ ~ res.panicked
                           THEN (key :> Get(close1.args, K_path))
                                @@ [k \in (DOMAIN registry) \ {key} |->
                                        registry[k]]
                           ELSE registry
            /\ nextfid' = IF Written(res.io, CMD_CREATE_OPEN) # {}
                          THEN nextfid + 1 ELSE nextfid
            /\ uploaded' = IF res.err = NilErr /\ ~ res.panicked
                           THEN (key :> data)
                                @@ [k \in (DOMAIN uploaded) \ {key} |->
                                        uploaded[k]]
                           ELSE uploaded
            /\ UNCHANGED <<domain, trackers, dead_trackers, now, conc>>

\* m.trackerIsBad(tracker)
TrackerIsBadCall(tracker) ==
    \E res \in {trackerIsBad(dead_trackers, tracker, now)} :
        /\ Running
        /\ dead_trackers' = res.dead
        /\ io' = <<>>
        /\ ret' = [NoCall EXCEPT !.op = "trackerIsBad", !.key = tracker,
                                 !.at = now, !.isdown = res.isdown,
                                 !.before = dead_trackers]
        /\ UNCHANGED <<domain, trackers, last_tracker, now, cluster, conc>>

\* m.markTrackerAsBad(tracker)
MarkTrackerAsBadCall(tracker) ==
    /\ Running
    /\ dead_trackers' = markTrackerAsBad(dead_trackers, tracker, now)
    /\ io' = <<>>
    /\ ret' = [NoCall EXCEPT !.op = "markTrackerAsBad", !.key = tracker,
                             !.at = now]
    /\ UNCHANGED <<domain, trackers, last_tracker, now, cluster, conc>>

\* m.markTrackerAsAlive(tracker)
MarkTrackerAsAliveCall(tracker) ==
    /\ Running
    /\ dead_trackers' = markTrackerAsAlive(dead_trackers, tracker)
    /\ io' = <<>>
    /\ ret' = [NoCall EXCEPT !.op = "markTrackerAsAlive", !.key = tracker,
                             !.at = now]
    /\ UNCHANGED <<domain, trackers, last_tracker, now, cluster, conc>>

\* Time passes between two calls.
Tick ==
    /\ Running
    /\ now + TickStep <= MaxTime
    /\ now' = now + TickStep
    /\ UNCHANGED <<client, cluster, io, ret, conc>>

(***************************************************************************)
(* Spec: requests, the blacklist and the clock                             *)
(***************************************************************************)

\* The replies a tracker sends in Spec.
PoolReplies ==
    {<<>>, OkLine(<<>>), ErrLine(UnknownKey, <<"m">>), <<"x", "\r", "\n">>}

PoolNets == {Net(up, wok, sent) :
                up \in SUBSET Hosts, wok \in BOOLEAN, sent \in PoolReplies}

Next ==
    \/ \E net \in PoolNets :
          DoRequestCall(CMD_DEBUG, KeyArgs(domain, TheKey), net)
    \/ \E tracker \in Hosts : TrackerIsBadCall(tracker)
    \/ \E tracker \in Hosts : MarkTrackerAsBadCall(tracker)
    \/ \E tracker \in Hosts : MarkTrackerAsAliveCall(tracker)
    \/ Tick

Spec == Init /\ [][Next]_vars

(***************************************************************************)
(* SpecOps: the operations that are one request each                       *)
(***************************************************************************)

\* The options GetPaths is called with.
OptsSet == {NilOpts, GetPathsOpts(FALSE, 1), GetPathsOpts(TRUE, 3)}

\* What file_debug answers about a key: some of its fields, one of them
\* with characters that are escaped on the wire.
OpsPairs ==
    {<< <<K_fid, <<"1">>>>, <<K_devid, <<"1">>>> >>,
     << <<K_fid, <<"2">>>>, <<K_path, <<"u", "&", " ">>>> >>}

\* The networks of SpecOps: those of Nets and trackers answering with the
\* OK line of OpsPairs.
OpsNets ==
    Nets \cup {OkNet(up, TRUE, pairs) :
                  up \in {Hosts, {H2}}, pairs \in OpsPairs}

NextOps ==
    \/ \E key \in Keys, opts \in OptsSet, net \in Nets :
          GetPathsCall(key, opts, net)
    \/ \E oldname \in Keys, newname \in Keys, net \in OpsNets :
          RenameCall(oldname, newname, net)
    \/ \E key \in Keys, net \in OpsNets : DeleteCall(key, net)
    \/ \E key \in Keys, net \in OpsNets : DebugCall(key, net)

SpecOps == Init /\ [][NextOps]_vars

(***************************************************************************)
(* Tracker selection (C1)                                                  *)
(***************************************************************************)

\* The events of the last call of the kind ev, in order.
EventsOf(ev) == SelectSeq(io, LAMBDA e : e.ev = ev)

\* The host has a blacklist entry that has not expired.
Blacklisted(host) ==
    host \in DOMAIN dead_trackers /\ dead_trackers[host] > now

\* The hosts of the tracker list that accepted connections in the last call.
Reachable == {i \in 1..Len(trackers) : trackers[i] \in ret.up}

\* Those of them that are not blacklisted.
Eligible == {i \in Reachable : ~ Blacklisted(trackers[i])}

\* The host the last call was connected to, <<>> if to none.
ConnectedHost ==
    LET ok == SelectSeq(EventsOf("dial"), LAMBDA e : e.ok)
    IN  IF ok = <<>> THEN <<>> ELSE ok[Len(ok)].host

\* C1: when at least one configured host is reachable, the request is
\* served on a connection to the first reachable host of the list that is
\* not blacklisted, and no blacklisted host is dialed.
C1_FirstReachableSkippingBlacklisted ==
    (ret.op = "DoRequest" /\ Reachable # {}) =>
        /\ \A i \in 1..Len(io) :
              io[i].ev = "dial" => ~ Blacklisted(io[i].host)
        /\ Eligible # {} =>
              ConnectedHost =
                  trackers[CHOOSE i \in Eligible : \A j \in Eligible : i <= j]

(***************************************************************************)
(* SpecCodec: one request on a new client, over every reply of a bounded   *)
(* set (C8, C9, C10)                                                       *)
(***************************************************************************)

\* The longest body of a framed reply.
MaxBody == 3

\* The number of key/value pairs of a well-formed reply.
MaxPairs == 2

CodecChars == {"a", "=", "&", "%", "4", " ", "\t", "\r", "\n"}

\* Every string "<prefix><body><terminator>" of the bounded alphabet: the
\* OK and ERR lines, their truncations and everything else.
FramedReplies ==
    {prefix \o body \o suffix :
        prefix \in {<<>>, S_OK_, S_ERR_, <<"O", "K">>, <<"E", "R", "R">>},
        body \in StringsUpTo(CodecChars, MaxBody),
        suffix \in {<<>>, S_CRLF, <<"\n">>}}

\* Keys and values before encoding; some need escaping.
RawStrings == StringsUpTo({"a", " ", "&", "=", "%"}, 1)

RawPairs == RawStrings \X RawStrings

\* The example "OK key1=val1&key2=val2\r\n".
ExamplePairs ==
    << <<K_key \o <<"1">>, <<"v", "a", "l", "1">>>>,
       <<K_key \o <<"2">>, <<"v", "a", "l", "2">>>> >>

PairLists ==
    UNION {[1..n -> RawPairs] : n \in 0..MaxPairs} \cup {ExamplePairs}

CodecNets ==
    {Net(Hosts, TRUE, sent) : sent \in FramedReplies}
    \cup {OkNet(Hosts, TRUE, pairs) : pairs \in PairLists}
    \cup {Net(Hosts, FALSE, <<>>), Net({}, TRUE, <<>>)}

InitCodec == Init /\ trackers = <<H1>>

NextCodec ==
    /\ Fresh
    /\ \E net \in CodecNets :
          DoRequestCall(CMD_DEBUG, KeyArgs(domain, TheKey), net)

SpecCodec == InitCodec /\ [][NextCodec]_vars

\* The reply line the last call read, <<>> if it read none.
ReplyRead ==
    LET rd == EventsOf("read")
    IN  IF rd = <<>> THEN <<>> ELSE rd[1].data

HasRead == EventsOf("read") # <<>>

RECURSIVE MapOf(_)
\* The mapping of a list of key/value pairs: each key to its values, in
\* the order of the list.
MapOf(pairs) ==
    IF pairs = <<>> THEN MakeValues
    ELSE LET n == Len(pairs)
         IN  Add(MapOf(SubSeq(pairs, 1, n - 1)), pairs[n][1], pairs[n][2])

\* C8: a reply "OK <rest>\r\n" whose <rest> is the URL-encoding of a list
\* of key/value pairs makes DoRequest return a nil error and the mapping
\* of exactly these pairs.
C8_OkReplyYieldsMapping ==
    (ret.op = "DoRequest" /\ HasRead /\ ReplyRead = OkLine(ret.pairs)) =>
        /\ ret.err = NilErr
        /\ ret.values = MapOf(ret.pairs)

\* Witness of C8: the reply encoded two pairs, one with a character that
\* had to be escaped, and was decoded.
C8_Witness ==
    /\ ret.op = "DoRequest"
    /\ ReplyRead = OkLine(ret.pairs)
    /\ Len(ret.pairs) = 2
    /\ ret.pairs[1][2] = <<"&">>
    /\ ret.err = NilErr

\* The line is "ERR <code>" followed by the character at index k, <code>
\* being a non-empty run of non-whitespace characters.
ErrCodeEndsAt(line, k) ==
    /\ k > 5
    /\ k <= Len(line)
    /\ SubSeq(line, 1, 4) = S_ERR_
    /\ \A i \in 5..(k - 1) : line[i] \notin Whitespace
    /\ line[k] \in Whitespace

\* C9 as claimed: a reply "ERR <code> ..." or "ERR <code>\r\n" makes
\* DoRequest return the application error of <code> and no mapping.
C9_ErrReplyYieldsCode ==
    (ret.op = "DoRequest" /\ HasRead) =>
        \A k \in 1..Len(ReplyRead) :
            (/\ ErrCodeEndsAt(ReplyRead, k)
             /\ \/ ReplyRead[k] = " "
                \/ Tail_(ReplyRead, k) = S_CRLF) =>
                /\ ret.err = ErrMogilefsd(SubSeq(ReplyRead, 5, k - 1))
                /\ ret.values.isnil

\* C9 as amended: a reply "ERR <code> ..." in which a space follows <code>
\* makes DoRequest return the application error of <code> and no mapping;
\* when another whitespace character follows <code> (the line terminator,
\* a tab) the reply is an invalid tracker reply.
C9_ErrReplyWithSpaceYieldsCode ==
    (ret.op = "DoRequest" /\ HasRead) =>
        \A k \in 1..Len(ReplyRead) :
            ErrCodeEndsAt(ReplyRead, k) =>
                /\ ret.values.isnil
                /\ ret.err = IF ReplyRead[k] = " "
                             THEN ErrMogilefsd(SubSeq(ReplyRead, 5, k - 1))
                             ELSE ErrInvalidReply

\* Witness of C9: "ERR a a\r\n" was read and reported as code "a".
C9_Witness ==
    /\ ret.op = "DoRequest"
    /\ ReplyRead = ErrLine(<<"a">>, <<"a">>)
    /\ ret.err = ErrMogilefsd(<<"a">>)

\* The line is "OK <rest>\r\n".
IsOkLine(line) ==
    /\ Len(line) >= 5
    /\ SubSeq(line, 1, 3) = S_OK_
    /\ Tail_(line, Len(line) - 1) = S_CRLF

\* The line is "ERR <code> ...".
IsErrLine(line) ==
    \E k \in 1..Len(line) : ErrCodeEndsAt(line, k) /\ line[k] = " "

\* C10 as claimed: an empty reply and a reply matching neither grammar
\* make DoRequest fail with "invalid tracker reply".
C10_EmptyOrUnknownReplyIsInvalid ==
    (/\ ret.op = "DoRequest"
     /\ HasRead
     /\ ~ IsOkLine(ReplyRead)
     /\ ~ IsErrLine(ReplyRead)) =>
        /\ ret.err = ErrInvalidReply
        /\ ret.values.isnil

\* C10 as amended: a non-empty reply matching neither grammar makes
\* DoRequest fail with "invalid tracker reply"; an empty reply makes it
\* fail with the error of the read, io.EOF.
C10_UnknownReplyIsInvalid ==
    (/\ ret.op = "DoRequest"
     /\ HasRead
     /\ ~ IsOkLine(ReplyRead)
     /\ ~ IsErrLine(ReplyRead)) =>
        /\ ret.values.isnil
        /\ ret.err = IF ReplyRead = <<>> THEN Err("EOF", <<>>)
                     ELSE ErrInvalidReply

\* Witness of C10: a reply of neither grammar, cut before its terminator,
\* was read and reported as invalid.
C10_Witness ==
    /\ ret.op = "DoRequest"
    /\ ReplyRead = <<"O", "K", "a">>
    /\ ret.err = ErrInvalidReply

(***************************************************************************)
(* SpecFetch: one Fetch on a new client, over every behaviour of the       *)
(* tracker and of the storage nodes of a bounded set (C2, C3)              *)
(***************************************************************************)

GET == <<"G", "E", "T">>

PUT == <<"P", "U", "T">>

\* The candidate path lists a get_paths reply names.
PathLists == UNION {[1..n -> {U1, U2}] : n \in 0..MaxPaths}

\* The get_paths replies: every path list (the empty one is a miss), a
\* reply naming path2 only, an error, nothing, and something else.
FetchReplies ==
    {PathsLine(ps) : ps \in PathLists}
    \cup {OkLine(<<<<K_path \o <<"2">>, U2>>>>),
          ErrLine(UnknownKey, <<"m">>),
          <<>>,
          <<"x", "\r", "\n">>}

FetchNets ==
    {Net(up, TRUE, sent) : up \in {Hosts, {H2}}, sent \in FetchReplies}
    \cup {Net(Hosts, FALSE, <<>>), Net({}, TRUE, <<>>)}

\* What a storage node may answer to a GET.
GetOutcomes ==
    {HttpOutcome(FALSE, 0, <<>>),
     HttpOutcome(TRUE, 404, <<"e">>),
     HttpOutcome(TRUE, 500, <<"e">>),
     HttpOutcome(TRUE, 200, <<"x">>),
     HttpOutcome(TRUE, 200, <<"y">>)}

NextFetch ==
    /\ Fresh
    /\ \E net \in FetchNets, gets \in [1..MaxPaths -> GetOutcomes] :
          FetchCall(TheKey, net, gets)

SpecFetch == Init /\ [][NextFetch]_vars

\* The HTTP requests of the last call, in order.
HttpEvents == EventsOf("http")

Answered200(e) == e.ok /\ e.status = 200

\* The error Fetch records for a GET that did not answer 200.
GetError(e) ==
    IF e.ok THEN ErrHttpStatus(e.status) ELSE Err("http.Get", e.host)

\* C2: Fetch issues its GETs against the paths GetPaths returned, in their
\* order; only the last GET may have answered 200, and then its body is
\* returned with a nil error; if no GET answered 200, every path was
\* tried, no stream is returned, and the error is that of the last path.
C2_FetchFirst200 ==
    (ret.op = "Fetch" /\ ~ ret.panicked /\ ret.trerr = NilErr) =>
        LET g == HttpEvents
            n == Len(g)
        IN  /\ n <= Len(ret.paths)
            /\ \A i \in 1..n : g[i].cmd = GET /\ g[i].host = ret.paths[i]
            /\ \A i \in 1..(n - 1) : ~ Answered200(g[i])
            /\ IF n > 0 /\ Answered200(g[n])
               THEN ret.r = Body(g[n].data) /\ ret.err = NilErr
               ELSE /\ n = Len(ret.paths)
                    /\ ret.r.isnil
                    /\ n > 0 => ret.err = GetError(g[n])

\* Witness of C2: the first path answered 404, the second 200 with "x",
\* and "x" was returned.
C2_Witness ==
    /\ ret.op = "Fetch"
    /\ Len(HttpEvents) = 2
    /\ HttpEvents[1].status = 404
    /\ Answered200(HttpEvents[2])
    /\ ret.r = Body(<<"x">>)
    /\ ret.err = NilErr

\* C3: a miss (GetPaths succeeded with no path) makes Fetch fail without
\* an HTTP request, and Fetch never returns a nil stream with a nil error.
C3_MissFails ==
    (ret.op = "Fetch" /\ ~ ret.panicked) =>
        /\ (ret.trerr = NilErr /\ ret.paths = <<>>) =>
              (ret.err # NilErr /\ HttpEvents = <<>>)
        /\ ~ (ret.r.isnil /\ ret.err = NilErr)

(***************************************************************************)
(* SpecCreate: one Create on a new client, over every behaviour of the     *)
(* tracker and of the storage node of a bounded set (C4, C5, C6)           *)
(***************************************************************************)

\* The create_open replies: a path handed out, no path, an empty path, an
\* error, nothing, and something else.
OpenReplies ==
    {OpenLine(1, U1),
     OkLine(<<>>),
     OkLine(<<<<K_fid, <<"1">>>>, <<K_devid, <<"1">>>>>>),
     OkLine(<<<<K_fid, <<"1">>>>, <<K_path, <<>>>>>>),
     ErrLine(UnknownKey, <<"m">>),
     <<>>,
     <<"x", "\r", "\n">>}

OpenNets ==
    {Net(Hosts, TRUE, sent) : sent \in OpenReplies}
    \cup {Net({H2}, TRUE, OpenLine(1, U1)),
          Net(Hosts, FALSE, <<>>),
          Net({}, TRUE, <<>>)}

\* What an OK reply to create_close carries: nothing, or a field.
ClosePairs == {<<>>, << <<K_fid, <<"1">>>> >>}

CloseNets ==
    {Net(Hosts, TRUE, sent) :
        sent \in {OkLine(pairs) : pairs \in ClosePairs}
                 \cup {ErrLine(UnknownKey, <<"m">>), <<>>}}
    \cup {Net(Hosts, FALSE, <<>>), Net({}, TRUE, <<>>)}

\* What can happen to the PUT of a reader of n bytes.
PutOutcomes(n) ==
    {PutOutcome("badurl", 0, <<>>)}
    \cup {PutOutcome("neterr", 0, c) : c \in Chunkings(n)}
    \cup {PutOutcome("response", status, c) :
             status \in {200, 201, 500}, c \in Chunkings(n)}

NextCreate ==
    /\ Fresh
    /\ \E data \in Contents, open \in OpenNets, close \in CloseNets :
          \E put \in PutOutcomes(Len(data)) :
             CreateCall(TheKey, <<>>, data, open, put, close)

SpecCreate == Init /\ [][NextCreate]_vars

\* The PUT requests of the last call.
PutEvents == SelectSeq(HttpEvents, LAMBDA e : e.cmd = PUT)

\* The requests of the command the last call wrote, or tried to write.
Requests(command) ==
    SelectSeq(EventsOf("write"), LAMBDA e : e.cmd = command)

\* C4: a create_open reply that is OK but has no non-empty path makes
\* Create fail: no PUT, no create_close, a non-nil error.
C4_NoPathFails ==
    (/\ ret.op = "Create"
     /\ ~ ret.panicked
     /\ ret.trerr = NilErr
     /\ Len(Get(ret.open, K_path)) = 0) =>
        /\ PutEvents = <<>>
        /\ Requests(CMD_CREATE_CLOSE) = <<>>
        /\ ret.err # NilErr

\* C5: when the PUT fails or is answered with a status other than 200,
\* Create does nothing more on the network (no create_close is sent) and
\* returns a non-nil error, the storage daemon's status if it answered.
C5_FailedPutStopsCreate ==
    (/\ ret.op = "Create"
     /\ PutEvents # <<>>
     /\ ~ Answered200(PutEvents[1])) =>
        /\ Requests(CMD_CREATE_CLOSE) = <<>>
        /\ io[Len(io)] = PutEvents[1]
        /\ ret.err # NilErr
        /\ PutEvents[1].ok => ret.err = ErrStorageStatus(PutEvents[1].status)

\* Witness of C5: the storage node answered the PUT with 500.
C5_Witness ==
    /\ ret.op = "Create"
    /\ PutEvents # <<>>
    /\ PutEvents[1].ok
    /\ PutEvents[1].status = 500
    /\ ret.err = ErrStorageStatus(500)

\* C6: the size argument of every create_close Create sends is the number
\* of bytes that were read from the reader during the PUT, in decimal.
C6_CloseSizeIsBytesRead ==
    ret.op = "Create" =>
        \A i \in 1..Len(io) :
            (io[i].ev = "write" /\ io[i].cmd = CMD_CREATE_CLOSE) =>
                /\ Len(PutEvents) = 1
                /\ Get(io[i].args, K_size) = IntToStr(Len(PutEvents[1].data))

\* Witness of C6: a reader of two bytes was read in two reads of one byte
\* each, and create_close was sent with size "2".
C6_Witness ==
    /\ ret.op = "Create"
    /\ Len(ret.data) = 2
    /\ PutEvents # <<>>
    /\ PutEvents[1].data = ret.data
    /\ Requests(CMD_CREATE_CLOSE) # <<>>
    /\ Get(Requests(CMD_CREATE_CLOSE)[1].args, K_size) = <<"2">>

(***************************************************************************)
(* SpecRoundTrip: Create and Fetch against a faithful cluster (C7)         *)
(***************************************************************************)

\* The ways a reader of n bytes is read to its end.
FullChunkings(n) == {c \in Chunkings(n) : Sum(c) = n}

\* What a faithful storage node answers to a GET of path.
FaithfulGet(path) ==
    IF path \in DOMAIN store THEN HttpOutcome(TRUE, 200, store[path])
    ELSE HttpOutcome(TRUE, 404, <<>>)

\* What a faithful tracker answers to get_paths of key.
FaithfulPaths(key) ==
    IF key \in DOMAIN registry THEN PathsLine(<<registry[key]>>)
    ELSE ErrLine(UnknownKey, UnknownKey)

\* The hosts accepting connections during the create_open and during the
\* create_close of a Create: all hosts both times, or none one of the times.
RoundTripUps == {<<Hosts, Hosts>>, <<Hosts, {}>>, <<{}, Hosts>>}

\* Create against a tracker that hands out a new path with create_open and
\* registers it with create_close, and a storage node that reads the whole
\* body and answers 200.
CreateFaithful ==
    \E data \in Contents, ups \in RoundTripUps :
        \E chunks \in FullChunkings(Len(data)) :
            CreateCall(TheKey, <<>>, data,
                       Net(ups[1], TRUE,
                           OpenLine(nextfid, PathOf(nextfid))),
                       PutOutcome("response", 200, chunks),
                       Net(ups[2], TRUE, OkLine(<<>>)))

\* Fetch against a tracker that answers with the registered path of the
\* key and storage nodes that answer with what they stored.
FetchFaithful ==
    \E key \in Keys, up \in {Hosts, {}} :
        FetchCall(key, Net(up, TRUE, FaithfulPaths(key)),
                  [i \in 1..MaxPaths |->
                      IF key \in DOMAIN registry /\ i = 1
                      THEN FaithfulGet(registry[key])
                      ELSE HttpOutcome(FALSE, 0, <<>>)])

InitRoundTrip == Init /\ trackers = <<H1, H2>>

NextRoundTrip == CreateFaithful \/ FetchFaithful

SpecRoundTrip == InitRoundTrip /\ [][NextRoundTrip]_vars

\* C7: against a faithful cluster, a Fetch of a key that reaches a tracker
\* after a Create of the key returned nil returns a stream with exactly
\* the content of the last such Create.
C7_RoundTrip ==
    (/\ ret.op = "Fetch"
     /\ ~ ret.panicked
     /\ Reachable # {}
     /\ ret.key \in DOMAIN uploaded) =>
        /\ ret.err = NilErr
        /\ ret.r = Body(uploaded[ret.key])

\* Witness of C7: a key was created twice, with different contents, and
\* the Fetch returned the second content "xy".
C7_Witness ==
    /\ ret.op = "Fetch"
    /\ ret.key \in DOMAIN uploaded
    /\ Cardinality(DOMAIN store) >= 2
    /\ uploaded[ret.key] = <<"x", "y">>
    /\ ret.r = Body(<<"x", "y">>)

(***************************************************************************)
(* SpecPaths: one GetPaths call against every reply naming paths           *)
(***************************************************************************)

\* The largest index i of a key path<i> in the short replies.
MaxIdx == 3

\* The largest Pathcount a caller asks for.
MaxPathcount == 3

\* "path<i>"
PathKey(i) == K_path \o IntToStr(i)

\* What a reply says for one index: an empty value or a URL.
PathValues == {<<>>, U1, U2}

\* The pairs of a reply that names the indices of present with the values
\* vals, highest index first (the order of the pairs in the line carries no
\* meaning), together with the number of paths as mogilefsd sends it.
PathPairs(present, vals) ==
    LET down == [k \in 1..MaxIdx |-> MaxIdx + 1 - k]
        idx  == SelectSeq(down, LAMBDA i : i \in present)
    IN  <<<<K_path \o <<"s">>, IntToStr(Len(idx))>>>>
        \o [k \in 1..Len(idx) |-> <<PathKey(idx[k]), vals[idx[k]]>>]

\* The value a url.Values built from pairs has for key: that of the first
\* pair with this key, <<>> when there is none.
FirstValue(pairs, key) ==
    IF \E k \in 1..Len(pairs) : pairs[k][1] = key
    THEN pairs[CHOOSE k \in 1..Len(pairs) :
                  /\ pairs[k][1] = key
                  /\ \A j \in 1..(k - 1) : pairs[j][1] # key][2]
    ELSE <<>>

\* A reply naming path1..path<n>, as pairs and as the url.Values DoRequest
\* returns for it.
LongPairs(n) == [i \in 1..n |-> <<PathKey(i), IF i % 2 = 1 THEN U1 ELSE U2>>]

LongValues(n) ==
    [isnil |-> FALSE,
     m     |-> [k \in {PathKey(i) : i \in 1..n} |->
                   <<FirstValue(LongPairs(n), k)>>]]

ShortPairs ==
    {PathPairs(present, vals) :
        present \in SUBSET (1..MaxIdx), vals \in [1..MaxIdx -> PathValues]}
    \cup {<<>>, <<<<PathKey(1), U1>>, <<PathKey(1), U2>>>>}

\* The options a caller passes: none, or any combination.
PathsOpts ==
    {NilOpts} \cup {GetPathsOpts(nv, pc) :
                       nv \in BOOLEAN, pc \in (-1)..MaxPathcount}

\* Networks on which GetPaths gets no OK line.
PathsFailNets ==
    {Net(Hosts, TRUE, ErrLine(UnknownKey, <<"m">>)),
     Net(Hosts, TRUE, <<>>),
     Net(Hosts, FALSE, <<>>),
     Net({}, TRUE, <<>>)}

\* The loop of GetPaths (lines 94-104) on a reply naming path1..path<n>,
\* entered at index i with the paths of the indices below i collected.
ScanPathsCall(n, i) ==
    /\ Running
    /\ i <= n + 1
    /\ io' = <<>>
    /\ ret' = [NoCall EXCEPT
                  !.op = "ScanPaths", !.pairs = LongPairs(n),
                  !.paths = ScanPaths(LongValues(n), i,
                                      [j \in 1..(i - 1) |->
                                          LongPairs(n)[j][2]])]
    /\ UNCHANGED <<client, now, cluster, conc>>

\* One GetPaths call; the replies that name as many paths as the loop has
\* iterations are followed from the last MaxIdx iterations on.
NextPaths ==
    /\ Fresh
    /\ \/ \E pairs \in ShortPairs, opts \in PathsOpts :
             GetPathsCall(TheKey, opts, OkNet(Hosts, TRUE, pairs))
       \/ \E net \in PathsFailNets, opts \in PathsOpts :
             GetPathsCall(TheKey, opts, net)
       \/ \E n \in (PathScanLimit - MaxIdx)..(PathScanLimit + 1),
             i \in (PathScanLimit - MaxIdx)..PathScanLimit :
             ScanPathsCall(n, i)

SpecPaths == Init /\ [][NextPaths]_vars

\* path<i> is present and not empty in pairs.
Named(pairs, i) == FirstValue(pairs, PathKey(i)) # <<>>

\* The largest K <= 254 such that path1..pathK are all present and not
\* empty.
LastPath(pairs) ==
    IF \A i \in 1..254 : Named(pairs, i) THEN 254
    ELSE (CHOOSE i \in 1..254 :
             /\ ~ Named(pairs, i)
             /\ \A j \in 1..(i - 1) : Named(pairs, j)) - 1

\* The tracker answered the last call with the OK line of ret.pairs.
AnsweredOk == HasRead /\ ReplyRead = OkLine(ret.pairs)

\* C11: on a successful get_paths reply GetPaths returns the values of
\* path1..pathK in ascending index order, K the largest index <= 254 such
\* that path1..pathK are all present and non-empty; keys after a gap are
\* ignored, and without path1 the result is empty and the error nil.
C11_PathsUpToFirstGap ==
    /\ (ret.op = "GetPaths" /\ AnsweredOk) => ret.err = NilErr
    /\ ((ret.op = "GetPaths" /\ AnsweredOk) \/ ret.op = "ScanPaths") =>
           ret.paths = [i \in 1..LastPath(ret.pairs) |->
                           FirstValue(ret.pairs, PathKey(i))]

\* Witness of C11: the reply named path1 and path3 but not path2, and
\* GetPaths returned path1 alone.
C11_Witness ==
    /\ ret.op = "GetPaths"
    /\ AnsweredOk
    /\ Named(ret.pairs, 1)
    /\ ~ Named(ret.pairs, 2)
    /\ Named(ret.pairs, 3)
    /\ ret.paths = <<FirstValue(ret.pairs, PathKey(1))>>

\* The arguments of the request the last call wrote to a tracker.
WrittenArgs == EventsOf("write")[1].args

\* C12: the pathcount GetPaths sends is max(pathCount, 2) for every
\* pathCount of the caller; without options the request carries
\* pathcount=2 and noverify=1; noVerify is sent as 0 or 1.
C12_PathcountClamped ==
    (ret.op = "GetPaths" /\ EventsOf("write") # <<>>) =>
        /\ EventsOf("write")[1].cmd = CMD_GETPATHS
        /\ WrittenArgs.m[K_pathcount] =
              <<IF ret.opts.isnil THEN <<"2">>
                ELSE IF ret.opts.Pathcount > 2
                     THEN IntToStr(ret.opts.Pathcount)
                     ELSE <<"2">>>>
        /\ WrittenArgs.m[K_noverify] =
              <<IF ret.opts.isnil \/ ret.opts.NoVerify
                THEN <<"1">> ELSE <<"0">>>>

\* Witness of C12: the caller asked for one path without noVerify and the
\* request written carried pathcount=2 and noverify=0.
C12_Witness ==
    /\ ret.op = "GetPaths"
    /\ ~ ret.opts.isnil
    /\ ret.opts.Pathcount = 1
    /\ ~ ret.opts.NoVerify
    /\ EventsOf("write") # <<>>
    /\ WrittenArgs.m[K_pathcount] = <<<<"2">>>>
    /\ WrittenArgs.m[K_noverify] = <<<<"0">>>>

(***************************************************************************)
(* The blacklist over time (Spec)                                          *)
(***************************************************************************)

\* C13 as stated: a host blacklisted at time T is reported bad by every
\* check at a time t < T+60 and is healthy again at exactly T+60: every
\* check at t >= T+60 (expiry <= now) reports it not bad.
C13_HealthyFromExpiryOn ==
    [][\A h \in Hosts :
          /\ (MarkTrackerAsBadCall(h) /\ h \notin DOMAIN dead_trackers) =>
                dead_trackers'[h] = now + 60
          /\ (TrackerIsBadCall(h) /\ h \in DOMAIN dead_trackers) =>
                (ret'.isdown <=> now < dead_trackers[h])]_vars

\* C13 amended: a host blacklisted at time T is reported bad by every
\* check at a time t <= T+60, the instant of the expiry included, and
\* not bad by every check at t > T+60 (expiry < now).
C13_HealthyAfterExpiry ==
    [][\A h \in Hosts :
          /\ (MarkTrackerAsBadCall(h) /\ h \notin DOMAIN dead_trackers) =>
                dead_trackers'[h] = now + 60
          /\ (TrackerIsBadCall(h) /\ h \in DOMAIN dead_trackers) =>
                (ret'.isdown <=> now <= dead_trackers[h])]_vars

\* Witness of C13: a check made at the very instant of the expiry of the
\* entry of the host reported the host bad and kept the entry.
C13_Witness ==
    /\ ret.op = "trackerIsBad"
    /\ ret.at = now
    /\ ret.key \in DOMAIN dead_trackers
    /\ dead_trackers[ret.key] = now
    /\ ret.isdown

\* The last call got no connection: no dial of it succeeded.
NoConnection == \A i \in 1..Len(io) : io[i].ev = "dial" => ~ io[i].ok

\* C14: for every tracker list, the empty one included, a DoRequest that
\* gets no connection returns a non-nil error, the error of the last dial
\* when a host was dialed, and writes to no connection; it is never left
\* with neither a connection nor an error.
C14_NoConnectionIsAnError ==
    (ret.op = "DoRequest" /\ NoConnection) =>
        /\ ~ ret.panicked
        /\ ret.err # NilErr
        /\ EventsOf("dial") # <<>> =>
              ret.err = Err("dial", io[Len(io)].host)
        /\ EventsOf("write") = <<>>

\* C15: markTrackerAsBad on a host whose entry has not expired leaves the
\* blacklist as it is (the expiry is not extended), markTrackerAsAlive on
\* a host without an entry leaves it as it is, and the second of two equal
\* calls in a row changes nothing.
C15_MarkingIsIdempotent ==
    [][\A h \in Hosts :
          /\ (/\ MarkTrackerAsBadCall(h)
              /\ h \in DOMAIN dead_trackers
              /\ dead_trackers[h] > now) =>
                dead_trackers' = dead_trackers
          /\ (MarkTrackerAsAliveCall(h) /\ h \notin DOMAIN dead_trackers) =>
                dead_trackers' = dead_trackers
          /\ (/\ MarkTrackerAsBadCall(h)
              /\ ret.op = "markTrackerAsBad"
              /\ ret.key = h
              /\ ret.at = now) =>
                dead_trackers' = dead_trackers
          /\ (/\ MarkTrackerAsAliveCall(h)
              /\ ret.op = "markTrackerAsAlive"
              /\ ret.key = h) =>
                dead_trackers' = dead_trackers]_vars

\* Witness of C15: a host was marked bad while its entry, made at an
\* earlier time, had not expired, and the entry still has the old expiry.
C15_Witness ==
    /\ ret.op = "markTrackerAsBad"
    /\ ret.at = now
    /\ ret.key \in DOMAIN dead_trackers
    /\ dead_trackers[ret.key] > now
    /\ dead_trackers[ret.key] < now + 60

(***************************************************************************)
(* Rename, Delete and Debug (SpecOps)                                      *)
(***************************************************************************)

\* The command and the arguments the last call has to send.
OpCommand ==
    CASE ret.op = "Rename" -> CMD_RENAME
      [] ret.op = "Delete" -> CMD_DELETE
      [] ret.op = "Debug"  -> CMD_DEBUG

OpArgs ==
    IF ret.op = "Rename"
    THEN (K_domain :> <<domain>>) @@ (K_from_key :> <<ret.key>>)
         @@ (K_to_key :> <<ret.data>>)
    ELSE (K_domain :> <<domain>>) @@ (K_key :> <<ret.key>>)

\* C16: Rename, Delete and Debug issue one tracker request each (rename
\* with domain, from_key and to_key; delete and file_debug with domain and
\* key) and no HTTP request, and return what DoRequest returns: on an ERR
\* reply an error carrying the code, on an OK reply a nil error and, for
\* Debug, the mapping of the reply.
C16_OneRequestVerbatim ==
    ret.op \in {"Rename", "Delete", "Debug"} =>
        /\ EventsOf("http") = <<>>
        /\ Len(EventsOf("write")) <= 1
        /\ ~ NoConnection => Len(EventsOf("write")) = 1
        /\ \A i \in 1..Len(io) :
              io[i].ev = "write" =>
                 io[i].cmd = OpCommand /\ io[i].args.m = OpArgs
        /\ (HasRead /\ ReplyRead = ErrLine(UnknownKey, <<"m">>)) =>
              ret.err = Err("mogilefsd", UnknownKey)
        /\ AnsweredOk =>
              /\ ret.err = NilErr
              /\ ret.op = "Debug" => ret.values = MapOf(ret.pairs)

\* Witness of C16: Debug returned the mapping of a reply with two fields.
C16_Witness ==
    /\ ret.op = "Debug"
    /\ AnsweredOk
    /\ Len(ret.pairs) = 2
    /\ ret.values = MapOf(ret.pairs)
    /\ Len(EventsOf("write")) = 1

\* C17: every host whose dial failed during a request is in the blacklist
\* afterwards, with an expiry 60 seconds after the failure (or the earlier
\* one of an entry it had already), and the dials go on in list order.
C17_FailedDialIsBlacklisted ==
    ret.op = "DoRequest" =>
        \A i \in 1..Len(io) :
            (io[i].ev = "dial" /\ ~ io[i].ok) =>
                /\ io[i].host \in DOMAIN dead_trackers
                /\ dead_trackers[io[i].host] >= ret.at
                /\ dead_trackers[io[i].host] <= ret.at + 60
                /\ i < Len(trackers) =>
                      io[i + 1].ev = "dial" /\ io[i + 1].host = trackers[i + 1]

(***************************************************************************)
(* The steps of Create (SpecCreate)                                        *)
(***************************************************************************)

IsRequest(e, command) == e.ev = "write" /\ e.cmd = command

IsPut(e) == e.ev = "http" /\ e.cmd = PUT

\* The events of the last call that follow its PUT: those of create_close.
AfterPut ==
    IF \E i \in 1..Len(io) : IsPut(io[i])
    THEN SubSeq(io, (CHOOSE i \in 1..Len(io) : IsPut(io[i])) + 1, Len(io))
    ELSE <<>>

\* What Create has to return when create_close went as the events evs say.
IsCloseResponse(evs, values, err) ==
    LET dialed == SelectSeq(evs, LAMBDA e : e.ev = "dial" /\ e.ok)
        writes == SelectSeq(evs, LAMBDA e : e.ev = "write")
        reads  == SelectSeq(evs, LAMBDA e : e.ev = "read")
    IN  /\ dialed = <<>> => err.kind = "dial" /\ values = NilValues
        /\ (writes # <<>> /\ ~ writes[1].ok) =>
              err.kind = "write" /\ values = NilValues
        /\ reads # <<>> =>
              /\ reads[1].data = <<>> => err.kind = "EOF"
              /\ reads[1].data = ErrLine(UnknownKey, <<"m">>) =>
                    err = Err("mogilefsd", UnknownKey) /\ values = NilValues
              /\ \A pairs \in ClosePairs :
                    reads[1].data = OkLine(pairs) =>
                       err = NilErr /\ values = MapOf(pairs)

\* C18: in every Create, create_open, the PUT and create_close are issued
\* at most once each and in this order; the PUT only after create_open
\* succeeded with a non-empty path, to that path; create_close only after
\* the PUT was answered with 200; and a Create that got to create_close
\* returns what create_close returned.
C18_OpenPutCloseInOrder ==
    ret.op = "Create" =>
        /\ Len(Requests(CMD_CREATE_OPEN)) <= 1
        /\ Len(PutEvents) <= 1
        /\ Len(Requests(CMD_CREATE_CLOSE)) <= 1
        /\ \A i, j \in 1..Len(io) :
              \/ IsRequest(io[i], CMD_CREATE_OPEN) /\ IsPut(io[j])
              \/ IsPut(io[i]) /\ IsRequest(io[j], CMD_CREATE_CLOSE)
              \/ /\ IsRequest(io[i], CMD_CREATE_OPEN)
                 /\ IsRequest(io[j], CMD_CREATE_CLOSE)
              => i < j
        /\ PutEvents # <<>> =>
              /\ ret.trerr = NilErr
              /\ Get(ret.open, K_path) # <<>>
              /\ PutEvents[1].host = Get(ret.open, K_path)
        /\ Requests(CMD_CREATE_CLOSE) # <<>> => PutEvents # <<>>
        /\ AfterPut # <<>> =>
              /\ Answered200(PutEvents[1])
              /\ IsCloseResponse(AfterPut, ret.values, ret.err)

\* Witness of C18: all three steps were made and Create returned the error
\* code create_close was answered with.
C18_Witness ==
    /\ ret.op = "Create"
    /\ Len(Requests(CMD_CREATE_OPEN)) = 1
    /\ Len(PutEvents) = 1
    /\ Len(Requests(CMD_CREATE_CLOSE)) = 1
    /\ ret.err = Err("mogilefsd", UnknownKey)

(***************************************************************************)
(* Connections and requests of one DoRequest (Spec)                        *)
(***************************************************************************)

\* The connections the last call opened.
Connections == SelectSeq(io, LAMBDA e : e.ev = "dial" /\ e.ok)

\* The number of connections open after the first n events of the last
\* call.
OpenAfter(n) ==
    Len(SelectSeq(SubSeq(io, 1, n), LAMBDA e : e.ev = "dial" /\ e.ok))
    - Len(SelectSeq(SubSeq(io, 1, n), LAMBDA e : e.ev = "close"))

\* C19: a DoRequest uses at most one tracker connection and has closed it
\* when it returns, whatever happened on it (write failure, read failure,
\* unparseable reply, ERR reply, success); no tracker connection is open
\* after any sequence of operations.
C19_ConnectionsAreClosed ==
    /\ ret.op = "DoRequest" =>
          /\ Len(Connections) <= 1
          /\ \A i \in 1..Len(io) :
                io[i].ev \in {"write", "read", "close"} =>
                   /\ Connections # <<>>
                   /\ io[i].host = Connections[1].host
          /\ Connections # <<>> => io[Len(io)].ev = "close"
    /\ \A n \in 0..Len(io) : OpenAfter(n) \in {0, 1}
    /\ OpenAfter(Len(io)) = 0

\* Witness of C19: the write on the connection failed and the connection
\* was closed.
C19_Witness ==
    /\ ret.op = "DoRequest"
    /\ ret.err.kind = "write"
    /\ Len(Connections) = 1
    /\ io[Len(io)].ev = "close"
    /\ io[Len(io)].host = Connections[1].host


\* The positions of the last call's events of kind ev.
PositionsOf(ev) == {i \in 1..Len(io) : io[i].ev = ev}

\* C20: a DoRequest writes the request line at most once, to one tracker;
\* a write failure, read failure, unparseable reply or ERR reply ends the
\* call with that one write and no further connection attempt; a further
\* host is tried only after a connect failure, and every connection
\* attempt comes before the write.
C20_WrittenAtMostOnce ==
    ret.op = "DoRequest" =>
        /\ Len(EventsOf("write")) <= 1
        /\ \A d \in PositionsOf("dial"), e \in 1..Len(io) :
              io[e].ev # "dial" => d < e
        /\ \A d \in PositionsOf("dial") :
              (d + 1) \in PositionsOf("dial") => ~ io[d].ok
        /\ \A w \in PositionsOf("write") :
              /\ w - 1 \in PositionsOf("dial")
              /\ io[w - 1].ok
              /\ io[w].host = io[w - 1].host
        /\ ret.err.kind \in {"write", "EOF", ErrInvalidReply.kind, "mogilefsd"}
              => Len(EventsOf("write")) = 1

\* Witness of C20: the first host refused the connection, the request was
\* written to the second, which answered ERR, and the call returned that
\* error with one write.
C20_Witness ==
    /\ ret.op = "DoRequest"
    /\ ret.err.kind = "mogilefsd"
    /\ Len(EventsOf("dial")) = 2
    /\ Len(EventsOf("write")) = 1
    /\ ~ EventsOf("dial")[1].ok
    /\ EventsOf("write")[1].host = trackers[2]


(***************************************************************************)
(* The last-used tracker (Spec)                                            *)
(***************************************************************************)

\* C21: last_tracker is written only by a connect that succeeded: a request
\* that got a connection leaves the host of that connection in it, a
\* request whose dials all failed leaves it as it was, so that it is always
\* empty or a host a connection was established to.
C21_LastTrackerWasConnected ==
    [][ret'.op = "DoRequest" =>
          IF SelectSeq(io', LAMBDA e : e.ev = "dial" /\ e.ok) # <<>>
          THEN last_tracker' =
                  SelectSeq(io', LAMBDA e : e.ev = "dial" /\ e.ok)[1].host
          ELSE last_tracker' = last_tracker]_vars


(***************************************************************************)
(* Requests and the blacklist (Spec)                                       *)
(***************************************************************************)

\* The errors of a request that had a connection.
ApplicationErrors == {"write", "EOF", ErrInvalidReply.kind, "mogilefsd"}

\* C22: a request that got a connection and ended in a write failure, a
\* read failure, an unparseable reply or an ERR reply leaves the blacklist
\* as it was, and the next request, made with the same hosts reachable, is
\* served by the same tracker.
C22_ErrorsLeaveBlacklistAlone ==
    [][/\ (/\ ret'.op = "DoRequest"
           /\ SelectSeq(io', LAMBDA e : e.ev = "dial" /\ e.ok) # <<>>
           /\ ret'.err.kind \in ApplicationErrors)
          => dead_trackers' = dead_trackers
       /\ (/\ ret.op = "DoRequest"
           /\ Connections # <<>>
           /\ ret.err.kind \in ApplicationErrors
           /\ ret'.op = "DoRequest"
           /\ ret'.up = ret.up)
          => /\ SelectSeq(io', LAMBDA e : e.ev = "dial" /\ e.ok) # <<>>
             /\ SelectSeq(io', LAMBDA e : e.ev = "dial" /\ e.ok)[1].host
                   = Connections[1].host]_vars

\* Witness of C22: the second of two hosts, both listed and both reachable,
\* is blacklisted, the request went to the first and was answered ERR.
C22_Witness ==
    /\ ret.op = "DoRequest"
    /\ ret.err.kind = "mogilefsd"
    /\ Len(trackers) = 2
    /\ trackers[1] # trackers[2]
    /\ ret.up = Hosts
    /\ Connections # <<>>
    /\ Connections[1].host = trackers[1]
    /\ DOMAIN dead_trackers = {trackers[2]}


(***************************************************************************)
(* Expiry of blacklist entries (Spec)                                      *)
(***************************************************************************)

\* C23: when trackerIsBad reports a host not bad, the blacklist has no
\* entry for the host afterwards (an entry that has expired is deleted by
\* the check); the entries of the other hosts are as they were.
C23_ExpiredEntryIsRemoved ==
    ret.op = "trackerIsBad" =>
        /\ ~ ret.isdown => ret.key \notin DOMAIN dead_trackers
        /\ \A h \in Hosts \ {ret.key} :
              /\ h \in DOMAIN dead_trackers <=> h \in DOMAIN ret.before
              /\ h \in DOMAIN ret.before =>
                    dead_trackers[h] = ret.before[h]

\* Witness of C23: the check found an entry of the host that had expired
\* and an entry of the other host, reported the host not bad, and only the
\* entry of the other host is left.
C23_Witness ==
    /\ ret.op = "trackerIsBad"
    /\ ~ ret.isdown
    /\ DOMAIN ret.before = Hosts
    /\ ret.before[ret.key] < ret.at
    /\ DOMAIN dead_trackers = Hosts \ {ret.key}


(***************************************************************************)
(* The two results of DoRequest (SpecCodec)                                *)
(***************************************************************************)

\* C24: a DoRequest returns a mapping or an error, never both and never
\* neither: with an error (that of an OK line whose query string is
\* malformed included) the mapping is nil, without an error the mapping is
\* the one parsed from the OK line read.
C24_MappingOrFailure ==
    (ret.op = "DoRequest" /\ ~ ret.panicked) =>
        /\ ret.err # NilErr => ret.values.isnil
        /\ ret.err = NilErr =>
              /\ ~ ret.values.isnil
              /\ reMogileOk(ReplyRead).matched
              /\ ret.values = ParseQuery(reMogileOk(ReplyRead).group).values


(***************************************************************************)
(* SpecConc: DoRequest called by several goroutines on one client, a step  *)
(* for each access to the shared fields and each operation on the network  *)
(***************************************************************************)

\* The key goroutine g asks about.
KeyOf(g) == <<"k">> \o IntToStr(g)

\* What a read of a string yields when it races with a write of it, and a
\* write of it when it races with another write: a value that is no host.
Torn == <<"?">>

\* Another goroutine stands at the assignment to m.last_tracker.
Racing(g) == \E h \in Procs \ {g} : calls[h].pc = "assign"

\* A connection to host established by the dial of goroutine g; req is the
\* request the tracker received on it.
NewConn(host, g) ==
    [host |-> host, by |-> g, open |-> TRUE, req |-> NilValues]

\* A variant of tracker_conn in which the connection is kept in a field of
\* the client, where every dial that succeeds puts its connection.
tracker_conn_Shared(g) == Len(conns)

\* The connection the variable tracker_conn of goroutine g holds.
tracker_conn(g) == calls[g].conn

\* What the tracker sends on a connection on which it received req: an
\* answer to that request, an error, or nothing.
ConcReplies(req) ==
    {OkLine(<< <<K_key, Get(req, K_key)>> >>),
     ErrLine(UnknownKey, <<"m">>), <<>>}

\* One goroutine steps, the client's other fields and the last call of the
\* sequential operations stay.
ConcFrame ==
    UNCHANGED <<domain, trackers, dead_trackers, now, cluster, io, ret>>

\* go m.DoRequest(CMD_DEBUG, args of KeyOf(g)): the request is encoded and
\* getTrackerConnection entered; with an empty list the loop is skipped and
\* (nil, nil) returned.
StartCall(g) ==
    /\ calls[g].pc = "idle"
    /\ calls' = [calls EXCEPT ![g].pc =
                    IF Len(trackers) > 0 THEN "assign" ELSE "write",
                              ![g].i = 1]
    /\ UNCHANGED <<last_tracker, conns>>
    /\ ConcFrame

\* m.last_tracker = host, net-io.go line 42: an unsynchronized write.
AssignLastTracker(g) ==
    /\ calls[g].pc = "assign"
    /\ \E written \in {trackers[calls[g].i]}
                      \cup (IF Racing(g) THEN {Torn} ELSE {}) :
          last_tracker' = written
    /\ calls' = [calls EXCEPT ![g].pc = "dial"]
    /\ UNCHANGED conns
    /\ ConcFrame

\* conn, err = net.DialTimeout("tcp", m.last_tracker, ...), line 43: an
\* unsynchronized read of the field, then the dial of what was read; on
\* success the loop is left, on failure it goes on with the next host or
\* ends.
DialTracker(g) ==
    /\ calls[g].pc = "dial"
    /\ \E target \in {last_tracker} \cup (IF Racing(g) THEN {Torn} ELSE {}),
          ok \in BOOLEAN :
          /\ ok => target \in Hosts
          /\ IF ok
             THEN /\ conns' = Append(conns, NewConn(target, g))
                  /\ calls' = [calls EXCEPT ![g].conn = Len(conns) + 1,
                                            ![g].err = NilErr,
                                            ![g].pc = "write"]
             ELSE /\ conns' = conns
                  /\ calls' = [calls EXCEPT
                        ![g].conn = 0,
                        ![g].err = Err("dial", target),
                        ![g].i = @ + 1,
                        ![g].pc = IF calls[g].i < Len(trackers)
                                  THEN "assign" ELSE "decode"]
    /\ UNCHANGED last_tracker
    /\ ConcFrame

\* _, err = tracker_conn.Write([]byte(command)), line 80; on a nil
\* connection it panics.
WriteRequest(g) ==
    /\ calls[g].pc = "write"
    /\ \E c \in {tracker_conn(g)} :
          IF c = 0
          THEN /\ calls' = [calls EXCEPT ![g].pc = "panicked"]
               /\ conns' = conns
          ELSE \E wok \in BOOLEAN :
                  IF wok
                  THEN /\ conns' = [conns EXCEPT ![c].req =
                                       KeyArgs(domain, KeyOf(g))]
                       /\ calls' = [calls EXCEPT ![g].wrote = c,
                                                 ![g].pc = "read"]
                  ELSE /\ conns' = conns
                       /\ calls' = [calls EXCEPT
                                       ![g].wrote = c,
                                       ![g].err = Err("write", conns[c].host),
                                       ![g].pc = "close"]
    /\ UNCHANGED last_tracker
    /\ ConcFrame

\* tracker_reply, err = b.ReadString('\n'), lines 82-83.
ReadReply(g) ==
    /\ calls[g].pc = "read"
    /\ \E c \in {tracker_conn(g)} :
       \E sent \in ConcReplies(conns[c].req) :
       \E rs \in {ReadString(sent)} :
          calls' = [calls EXCEPT ![g].readfrom = c,
                                 ![g].tracker_reply = rs.line,
                                 ![g].err = rs.err,
                                 ![g].pc = "close"]
    /\ UNCHANGED <<last_tracker, conns>>
    /\ ConcFrame

\* m.returnTrackerConnection(tracker_conn), line 85: conn.Close().
ReturnConnection(g) ==
    /\ calls[g].pc = "close"
    /\ \E c \in {tracker_conn(g)} :
          conns' = [conns EXCEPT ![c].open = FALSE]
    /\ calls' = [calls EXCEPT ![g].pc = "decode"]
    /\ UNCHANGED last_tracker
    /\ ConcFrame

\* Lines 88-104: decode tracker_reply and return.
DecodeStep(g) ==
    /\ calls[g].pc = "decode"
    /\ \E dec \in {DecodeReply(calls[g].tracker_reply, calls[g].err)} :
          calls' = [calls EXCEPT ![g].values = dec.values,
                                 ![g].err = dec.err,
                                 ![g].pc = "done"]
    /\ UNCHANGED <<last_tracker, conns>>
    /\ ConcFrame

\* A panic of one goroutine ends the program.
NoPanic == \A g \in Procs : calls[g].pc # "panicked"

\* The client of the goroutines: one tracker, or two different ones.
InitConc == Init /\ trackers \in {<<H1>>, <<H1, H2>>}

NextConc ==
    /\ NoPanic
    /\ \E g \in Procs :
          \/ StartCall(g)
          \/ AssignLastTracker(g)
          \/ DialTracker(g)
          \/ WriteRequest(g)
          \/ ReadReply(g)
          \/ ReturnConnection(g)
          \/ DecodeStep(g)

SpecConc == InitConc /\ [][NextConc]_vars


\* The connections goroutine g established.
ConnsOf(g) == {c \in 1..Len(conns) : conns[c].by = g}

\* The call of goroutine g has returned its connection, if it had one.
Returned(g) == calls[g].pc \in {"decode", "done"}

\* C25: in every interleaving of the DoRequest calls of several goroutines
\* on one client, each call establishes at most one connection, writes its
\* request on it and nowhere else, reads its reply from the connection it
\* wrote on, closes it itself before it returns and closes no other; a
\* call that returns without error returns the answer to its own request.
C25_ConnectionsAreNotShared ==
    /\ \A g \in Procs :
          /\ \A c, d \in ConnsOf(g) : c = d
          /\ calls[g].wrote # 0 => calls[g].wrote \in ConnsOf(g)
          /\ calls[g].readfrom # 0 =>
                /\ calls[g].readfrom = calls[g].wrote
                /\ calls[g].readfrom \in ConnsOf(g)
          /\ Returned(g) => \A c \in ConnsOf(g) : ~ conns[c].open
          /\ (calls[g].pc = "done" /\ calls[g].err = NilErr) =>
                calls[g].values = MapOf(<< <<K_key, KeyOf(g)>> >>)
    /\ \A c \in 1..Len(conns) :
          /\ ~ conns[c].open => Returned(conns[c].by)
          /\ conns[c].req \in
                {NilValues, KeyArgs(domain, KeyOf(conns[c].by))}

\* Witness of C25: two calls ran interleaved and both returned the answer
\* to their own request; the first connection was established by the
\* second goroutine, and one of the calls was connected to a host other
\* than the one its loop had reached, the field last_tracker having been
\* overwritten in between.
C25_Witness ==
    /\ \A g \in {1, 2} :
          /\ calls[g].pc = "done"
          /\ calls[g].err = NilErr
          /\ calls[g].values = MapOf(<< <<K_key, KeyOf(g)>> >>)
    /\ conns[1].by = 2
    /\ \E g \in {1, 2} :
          conns[calls[g].wrote].host # trackers[calls[g].i]

=============================================================================
